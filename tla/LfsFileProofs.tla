---------------------------- MODULE LfsFileProofs -----------------------------
(***************************************************************************)
(* An open file keeps the promise of AtomicFile for every size of blocks,  *)
(* every pair of bounds for inline files, every limit of space and every   *)
(* file size.                                                              *)
(*                                                                         *)
(* The way there: every operator that builds a file from another one keeps *)
(* its Shape, and ContentsOf says which bytes it has afterwards.  The      *)
(* operators of the write path add bytes behind the position (Wrote), a    *)
(* flush keeps them (Flushed), a seek too (Sought), a truncation cuts them *)
(* (Shortened).  The calls are compositions of these, and each of them is  *)
(* then shown to be one step of the abstract file.                         *)
(***************************************************************************)
EXTENDS LfsFile, SequenceTheorems, WellFoundedInduction, TLAPS

Byte == Values \cup {Zero}

-----------------------------------------------------------------------------
(* Numbers *)

\* What FileAssumption says, one by one.
LEMMA Constants ==
  /\ BlockSize \in Nat /\ BlockSize > 0
  /\ OutlineAbove \in Nat /\ InlineUpTo \in Nat /\ MaxSize \in Nat
  /\ OutlineAbove <= InlineUpTo /\ InlineUpTo <= BlockSize
  /\ Sizes \subseteq Nat /\ Rooms \subseteq Nat
  /\ Appending \in BOOLEAN /\ Careful \in BOOLEAN
BY FileAssumption

\* The greatest of two numbers.
LEMMA MaxOfTwo == ASSUME NEW a \in Int, NEW b \in Int
  PROVE  Max({a, b}) = IF a >= b THEN a ELSE b
BY DEF Max

\* The least of two numbers.
LEMMA MinOfTwo == ASSUME NEW a \in Int, NEW b \in Int
  PROVE  Min({a, b}) = IF a <= b THEN a ELSE b
BY DEF Min

\* A set of natural numbers has a least element.
LEMMA LeastOfSome == ASSUME NEW T \in SUBSET Nat, T # {}
  PROVE  \E x \in T : \A y \in T : x <= y
<1>1. \E x \in T : \A y \in T : ~(<<y, x>> \in OpToRel(<, Nat))
  BY WFMin, NatLessThanWellFounded, Zenon
<1>2. ASSUME NEW x \in Nat, NEW y \in Nat, ~(<<y, x>> \in OpToRel(<, Nat))
      PROVE  ~(y < x)
  BY <1>2, Zenon DEF OpToRel
<1>3. PICK x \in T : \A y \in T : ~(<<y, x>> \in OpToRel(<, Nat))
  BY <1>1
<1>4. ASSUME NEW y \in T PROVE x <= y
  <2>1. x \in Nat /\ y \in Nat /\ ~(y < x)
    BY <1>2, <1>3
  <2> QED
    BY <2>1
<1> QED
  BY <1>4

\* A bounded set of numbers has a greatest one.
LEMMA GreatestOfSome == ASSUME NEW N \in Nat, NEW T \in SUBSET (0..N), T # {}
  PROVE  Max(T) \in T /\ \A y \in T : y <= Max(T)
<1> DEFINE U == {m \in 0..N : N - m \in T}
<1>1. PICK t \in T : TRUE
  OBVIOUS
<1>2. U \in SUBSET Nat /\ U # {}
  <2>1. t \in Nat /\ N - t \in 0..N /\ N - (N - t) = t
    OBVIOUS
  <2> QED
    BY <2>1
<1>3. PICK x \in U : \A y \in U : x <= y
  BY <1>2, LeastOfSome
<1>4. N - x \in T /\ \A y \in T : y <= N - x
  <2>1. ASSUME NEW y \in T PROVE y <= N - x
    <3>1. y \in Nat /\ N - y \in 0..N /\ N - (N - y) = y
      OBVIOUS
    <3>2. N - y \in U
      BY <3>1
    <3> QED
      BY <1>3, <3>1, <3>2
  <2> QED
    BY <2>1
<1>5. \E m \in T : \A y \in T : m >= y
  BY <1>4
<1> QED
  BY <1>5 DEF Max

\* Quotients and remainders.
LEMMA QuotientInNat == ASSUME NEW a \in Nat, NEW b \in Nat, b > 0
  PROVE  a \div b \in Nat /\ a % b \in 0..(b - 1)
OBVIOUS

-----------------------------------------------------------------------------
(* Sequences *)

\* Sequences with the same elements are the same.
LEMMA SameSequence ==
  ASSUME NEW S, NEW s \in Seq(S), NEW t \in Seq(S), Len(s) = Len(t),
         \A i \in 1..Len(s) : s[i] = t[i]
  PROVE  s = t
BY SeqEqual

\* The first p of the elements, and those behind them.
LEMMA FrontProperties ==
  ASSUME NEW S, NEW s \in Seq(S), NEW p \in 0..Len(s)
  PROVE  /\ SubSeq(s, 1, p) \in Seq(S)
         /\ Len(SubSeq(s, 1, p)) = p
         /\ \A i \in 1..p : SubSeq(s, 1, p)[i] = s[i]
OBVIOUS

\* The elements behind the first p.
LEMMA BehindProperties ==
  ASSUME NEW S, NEW s \in Seq(S), NEW p \in Nat
  PROVE  /\ SubSeq(s, p + 1, Len(s)) \in Seq(S)
         /\ Len(SubSeq(s, p + 1, Len(s))) = IF p <= Len(s) THEN Len(s) - p ELSE 0
         /\ \A i \in 1..(Len(s) - p) : SubSeq(s, p + 1, Len(s))[i] = s[p + i]
OBVIOUS

\* The sequence b, and behind it what c has there.
Over(b, c) == b \o SubSeq(c, Len(b) + 1, Len(c))

\* Its length and its elements.
LEMMA OverProperties ==
  ASSUME NEW S, NEW b \in Seq(S), NEW c \in Seq(S)
  PROVE  /\ Over(b, c) \in Seq(S)
         /\ Len(Over(b, c)) = IF Len(b) >= Len(c) THEN Len(b) ELSE Len(c)
         /\ \A i \in 1..Len(Over(b, c)) : Over(b, c)[i] = IF i <= Len(b) THEN b[i] ELSE c[i]
<1> DEFINE m == Len(b)
           e == SubSeq(c, m + 1, Len(c))
           w == b \o e
<1>1. m \in Nat /\ Len(c) \in Nat
  OBVIOUS
<1> HIDE DEF m
<1>2. e \in Seq(S) /\ Len(e) = (IF m <= Len(c) THEN Len(c) - m ELSE 0)
      /\ \A i \in 1..(Len(c) - m) : e[i] = c[m + i]
  BY <1>1, BehindProperties
<1> HIDE DEF e
<1>3. /\ m <= Len(c) => Len(e) = Len(c) - m
      /\ m > Len(c) => Len(e) = 0
      /\ Len(e) \in Nat
  BY <1>1, <1>2
<1>4. w \in Seq(S) /\ Len(w) = m + Len(e)
      /\ \A i \in 1..(m + Len(e)) : w[i] = IF i <= m THEN b[i] ELSE e[i - m]
  BY <1>2, ConcatProperties DEF m
<1>5. Over(b, c) = w
  BY DEF Over, e, m
<1> HIDE DEF w
<1>6. Len(w) = m + Len(e)
  BY <1>4
<1>7. Len(w) = IF m >= Len(c) THEN m ELSE Len(c)
  BY <1>1, <1>3, <1>6
<1>8. ASSUME NEW i \in 1..Len(w) PROVE w[i] = IF i <= m THEN b[i] ELSE c[i]
  <2>1. i \in Int /\ 1 <= i /\ i <= m + Len(e)
    BY <1>1, <1>3, <1>6
  <2>2. CASE i <= m
    BY <2>1, <2>2, <1>1, <1>4
  <2>3. CASE m < i
    <3>1. i - m \in 1..(Len(c) - m) /\ m + (i - m) = i
      BY <2>1, <2>3, <1>1, <1>3
    <3>2. e[i - m] = c[i]
      BY <3>1, <1>2
    <3>3. w[i] = e[i - m]
      BY <2>1, <2>3, <1>1, <1>4
    <3> QED
      BY <2>1, <2>3, <3>2, <3>3, <1>1
  <2> QED
    BY <2>1, <2>2, <2>3, <1>1
<1> QED
  BY <1>4, <1>5, <1>7, <1>8 DEF m

\* To put d into c is to lay the bytes up to the end of d over c.
LEMMA PutIsOver ==
  ASSUME NEW S, NEW c \in Seq(S), NEW d \in Seq(S), NEW p \in 0..Len(c)
  PROVE  /\ Put(c, p, d) = Over(SubSeq(c, 1, p) \o d, c)
         /\ SubSeq(c, 1, p) \o d \in Seq(S)
         /\ Len(SubSeq(c, 1, p) \o d) = p + Len(d)
         /\ \A i \in 1..(p + Len(d)) :
              (SubSeq(c, 1, p) \o d)[i] = IF i <= p THEN c[i] ELSE d[i - p]
<1> DEFINE a == SubSeq(c, 1, p)
<1>1. a \in Seq(S) /\ Len(a) = p /\ \A i \in 1..p : a[i] = c[i]
  BY FrontProperties
<1>2. p \in Nat /\ Len(d) \in Nat
  OBVIOUS
<1>3. Put(c, p, d) = (a \o d) \o SubSeq(c, p + Len(d) + 1, Len(c))
  BY DEF Put
<1> HIDE DEF a
<1>4. a \o d \in Seq(S) /\ Len(a \o d) = p + Len(d)
      /\ \A i \in 1..(p + Len(d)) : (a \o d)[i] = IF i <= p THEN a[i] ELSE d[i - p]
  BY <1>1, ConcatProperties
<1>5. Put(c, p, d) = Over(a \o d, c)
  BY <1>3, <1>4 DEF Over
<1>6. ASSUME NEW i \in 1..(p + Len(d))
      PROVE  (a \o d)[i] = IF i <= p THEN c[i] ELSE d[i - p]
  BY <1>1, <1>2, <1>4
<1> QED
  BY <1>4, <1>5, <1>6 DEF a

\* The length and the elements of what d was put into.
LEMMA PutProperties ==
  ASSUME NEW S, NEW c \in Seq(S), NEW d \in Seq(S), NEW p \in 0..Len(c)
  PROVE  /\ Put(c, p, d) \in Seq(S)
         /\ Len(Put(c, p, d)) = IF p + Len(d) >= Len(c) THEN p + Len(d) ELSE Len(c)
         /\ \A i \in 1..Len(Put(c, p, d)) :
              Put(c, p, d)[i] = IF i <= p THEN c[i]
                                ELSE IF i <= p + Len(d) THEN d[i - p] ELSE c[i]
<1> DEFINE b == SubSeq(c, 1, p) \o d
<1>1. p \in Nat /\ Len(d) \in Nat /\ p + Len(d) \in Nat
  OBVIOUS
<1>2. Put(c, p, d) = Over(b, c)
  BY PutIsOver
<1>3. b \in Seq(S) /\ Len(b) = p + Len(d)
      /\ \A i \in 1..(p + Len(d)) : b[i] = IF i <= p THEN c[i] ELSE d[i - p]
  BY PutIsOver
<1> HIDE DEF b
<1>4. Over(b, c) \in Seq(S)
      /\ Len(Over(b, c)) = (IF p + Len(d) >= Len(c) THEN p + Len(d) ELSE Len(c))
      /\ \A i \in 1..Len(Over(b, c)) : Over(b, c)[i] = IF i <= p + Len(d) THEN b[i] ELSE c[i]
  BY <1>3, OverProperties
<1>5. ASSUME NEW i \in 1..Len(Over(b, c))
      PROVE  Over(b, c)[i] = IF i <= p THEN c[i] ELSE IF i <= p + Len(d) THEN d[i - p] ELSE c[i]
  BY <1>1, <1>3, <1>4
<1> QED
  BY <1>2, <1>4, <1>5

\* To put nothing changes nothing.
LEMMA PutNothing == ASSUME NEW S, NEW c \in Seq(S), NEW p \in 0..Len(c)
  PROVE  Put(c, p, <<>>) = c
<1>1. <<>> \in Seq(S) /\ Len(<<>>) = 0
  OBVIOUS
<1> DEFINE z == <<>>
           a == Put(c, p, z)
<1>2. z \in Seq(S) /\ Len(z) = 0 /\ p + Len(z) = p /\ Len(c) \in Nat /\ p \in Nat
  BY <1>1
<1> HIDE DEF z
<1>3. a \in Seq(S) /\ Len(a) = (IF p + Len(z) >= Len(c) THEN p + Len(z) ELSE Len(c))
      /\ \A i \in 1..Len(a) : a[i] = IF i <= p THEN c[i] ELSE IF i <= p + Len(z) THEN z[i - p] ELSE c[i]
  BY <1>2, PutProperties
<1> HIDE DEF a
<1>4. Len(a) = Len(c) /\ \A i \in 1..Len(a) : a[i] = c[i]
  BY <1>2, <1>3
<1>5. a = c
  BY <1>3, <1>4, SameSequence
<1> QED
  BY <1>5 DEF a, z

\* Writing on behind what was written is writing both at once.
LEMMA PutBehind ==
  ASSUME NEW S, NEW c \in Seq(S), NEW d \in Seq(S), NEW e \in Seq(S), NEW p \in 0..Len(c)
  PROVE  Put(Put(c, p, d), p + Len(d), e) = Put(c, p, d \o e)
<1> DEFINE a == Put(c, p, d)
           q == p + Len(d)
           l == Put(a, q, e)
           g == d \o e
           r == Put(c, p, g)
<1>1. Len(c) \in Nat /\ Len(d) \in Nat /\ Len(e) \in Nat /\ p \in Nat /\ p <= Len(c)
  OBVIOUS
<1>2. a \in Seq(S) /\ Len(a) = (IF q >= Len(c) THEN q ELSE Len(c))
      /\ \A i \in 1..Len(a) : a[i] = IF i <= p THEN c[i] ELSE IF i <= q THEN d[i - p] ELSE c[i]
  BY PutProperties
<1>3. q \in 0..Len(a)
  BY <1>1, <1>2
<1> HIDE DEF a
<1>4. l \in Seq(S) /\ Len(l) = (IF q + Len(e) >= Len(a) THEN q + Len(e) ELSE Len(a))
      /\ \A i \in 1..Len(l) : l[i] = IF i <= q THEN a[i] ELSE IF i <= q + Len(e) THEN e[i - q] ELSE a[i]
  BY <1>2, <1>3, PutProperties
<1>5. g \in Seq(S) /\ Len(g) = Len(d) + Len(e)
      /\ \A i \in 1..(Len(d) + Len(e)) : g[i] = IF i <= Len(d) THEN d[i] ELSE e[i - Len(d)]
  BY ConcatProperties
<1> HIDE DEF g
<1>6. r \in Seq(S) /\ Len(r) = (IF p + Len(g) >= Len(c) THEN p + Len(g) ELSE Len(c))
      /\ \A i \in 1..Len(r) : r[i] = IF i <= p THEN c[i]
                                     ELSE IF i <= p + Len(g) THEN g[i - p] ELSE c[i]
  BY <1>5, PutProperties
<1> HIDE DEF l, r
<1>7. Len(l) = Len(r) /\ Len(l) \in Nat
  <2>1. Len(a) = (IF q >= Len(c) THEN q ELSE Len(c))
    BY <1>2
  <2>2. Len(l) = (IF q + Len(e) >= Len(a) THEN q + Len(e) ELSE Len(a))
    BY <1>4
  <2>3. Len(r) = (IF p + Len(g) >= Len(c) THEN p + Len(g) ELSE Len(c))
    BY <1>6
  <2>4. Len(g) = Len(d) + Len(e)
    BY <1>5
  <2> QED
    BY <2>1, <2>2, <2>3, <2>4, <1>1
<1>8. ASSUME NEW i \in 1..Len(l) PROVE l[i] = r[i]
  <2>1. i \in 1..Len(r) /\ i \in Nat /\ Len(g) = Len(d) + Len(e) /\ q = p + Len(d)
    BY <1>5, <1>7
  <2>2. Len(a) \in Nat /\ (q + Len(e) < i => i \in 1..Len(a)) /\ q <= Len(a)
    <3>1. Len(a) = (IF q >= Len(c) THEN q ELSE Len(c))
      BY <1>2
    <3>2. Len(l) = (IF q + Len(e) >= Len(a) THEN q + Len(e) ELSE Len(a))
      BY <1>4
    <3> QED
      BY <3>1, <3>2, <2>1, <1>1
  <2>3. l[i] = IF i <= q THEN a[i] ELSE IF i <= q + Len(e) THEN e[i - q] ELSE a[i]
    BY <1>4
  <2>4. r[i] = IF i <= p THEN c[i] ELSE IF i <= p + Len(g) THEN g[i - p] ELSE c[i]
    BY <1>6, <2>1
  <2>5. CASE i <= q
    <3>1. i \in 1..Len(a)
      BY <2>1, <2>2, <2>5, <1>1
    <3>2. a[i] = IF i <= p THEN c[i] ELSE IF i <= q THEN d[i - p] ELSE c[i]
      BY <3>1, <1>2
    <3>3. p < i => i - p \in 1..(Len(d) + Len(e)) /\ i - p <= Len(d)
      BY <2>1, <2>5, <1>1
    <3>4. p < i => g[i - p] = d[i - p]
      BY <3>3, <1>5
    <3> QED
      BY <2>1, <2>3, <2>4, <2>5, <3>2, <3>4, <1>1
  <2>6. CASE q < i /\ i <= q + Len(e)
    <3>1. i - p \in 1..(Len(d) + Len(e)) /\ ~(i - p <= Len(d)) /\ (i - p) - Len(d) = i - q
      BY <2>1, <2>6, <1>1
    <3>2. g[i - p] = e[(i - p) - Len(d)]
      BY <3>1, <1>5
    <3> QED
      BY <2>1, <2>3, <2>4, <2>6, <3>1, <3>2, <1>1
  <2>7. CASE q + Len(e) < i
    <3>1. a[i] = IF i <= p THEN c[i] ELSE IF i <= q THEN d[i - p] ELSE c[i]
      BY <2>2, <2>7, <1>2
    <3> QED
      BY <2>1, <2>3, <2>4, <2>7, <3>1, <1>1
  <2> QED
    BY <2>1, <2>5, <2>6, <2>7, <1>1
<1>9. l = r
  BY <1>4, <1>6, <1>7, <1>8, SameSequence
<1> QED
  BY <1>9 DEF l, r, a, g

\* Writing what is there changes nothing.
LEMMA PutBack ==
  ASSUME NEW S, NEW c \in Seq(S), NEW p \in 0..Len(c), NEW d \in Seq(S), p + Len(d) <= Len(c),
         \A i \in 1..Len(d) : d[i] = c[p + i]
  PROVE  Put(c, p, d) = c
<1> DEFINE a == Put(c, p, d)
<1>1. Len(c) \in Nat /\ Len(d) \in Nat /\ p \in Nat
  OBVIOUS
<1>2. a \in Seq(S) /\ Len(a) = (IF p + Len(d) >= Len(c) THEN p + Len(d) ELSE Len(c))
      /\ \A i \in 1..Len(a) : a[i] = IF i <= p THEN c[i] ELSE IF i <= p + Len(d) THEN d[i - p] ELSE c[i]
  BY PutProperties
<1> HIDE DEF a
<1>3. Len(a) = Len(c)
  BY <1>1, <1>2
<1>4. ASSUME NEW i \in 1..Len(a) PROVE a[i] = c[i]
  <2>1. CASE p < i /\ i <= p + Len(d)
    <3>1. i - p \in 1..Len(d) /\ p + (i - p) = i
      BY <2>1, <1>1, <1>3
    <3> QED
      BY <2>1, <3>1, <1>1, <1>2
  <2>2. CASE i <= p \/ i > p + Len(d)
    BY <2>2, <1>1, <1>2
  <2> QED
    BY <2>1, <2>2, <1>1, <1>3
<1>5. a = c
  BY <1>2, <1>3, <1>4, SameSequence
<1> QED
  BY <1>5 DEF a

\* As many zeros as asked for.
LEMMA ZerosProperties == ASSUME NEW n \in Nat
  PROVE  /\ Zeros(n) \in Seq(Byte) /\ Len(Zeros(n)) = n
         /\ \A i \in 1..n : Zeros(n)[i] = Zero
BY DEF Zeros, Byte

\* The first of some zeros are zeros.
LEMMA ZerosFront == ASSUME NEW n \in Nat, NEW k \in 0..n
  PROVE  SubSeq(Zeros(n), 1, k) = Zeros(k)
<1>1. Zeros(n) \in Seq(Byte) /\ Len(Zeros(n)) = n /\ \A i \in 1..n : Zeros(n)[i] = Zero
      /\ k \in 0..Len(Zeros(n)) /\ 1..k \subseteq 1..n
  BY ZerosProperties
<1>2. SubSeq(Zeros(n), 1, k) \in Seq(Byte) /\ Len(SubSeq(Zeros(n), 1, k)) = k
      /\ \A i \in 1..k : SubSeq(Zeros(n), 1, k)[i] = Zero
  BY <1>1, FrontProperties
<1>3. Zeros(k) \in Seq(Byte) /\ Len(Zeros(k)) = k /\ \A i \in 1..k : Zeros(k)[i] = Zero
  BY ZerosProperties
<1> QED
  BY <1>2, <1>3, SameSequence

\* Zeros behind zeros.
LEMMA ZerosConcat == ASSUME NEW m \in Nat, NEW n \in Nat
  PROVE  Zeros(m) \o Zeros(n) = Zeros(m + n)
<1> DEFINE l == Zeros(m) \o Zeros(n)
<1>1. /\ Zeros(m) \in Seq(Byte) /\ Len(Zeros(m)) = m /\ \A i \in 1..m : Zeros(m)[i] = Zero
      /\ Zeros(n) \in Seq(Byte) /\ Len(Zeros(n)) = n /\ \A i \in 1..n : Zeros(n)[i] = Zero
  BY ZerosProperties
<1>2. m + n \in Nat
  OBVIOUS
<1>3. /\ Zeros(m + n) \in Seq(Byte) /\ Len(Zeros(m + n)) = m + n
      /\ \A i \in 1..(m + n) : Zeros(m + n)[i] = Zero
  BY <1>2, ZerosProperties
<1>4. l \in Seq(Byte) /\ Len(l) = m + n
      /\ \A i \in 1..(m + n) : l[i] = IF i <= m THEN Zeros(m)[i] ELSE Zeros(n)[i - m]
  BY <1>1, ConcatProperties
<1> HIDE DEF l
<1>5. ASSUME NEW i \in 1..(m + n) PROVE l[i] = Zeros(m + n)[i]
  <2>1. CASE i <= m
    BY <2>1, <1>1, <1>3, <1>4
  <2>2. CASE m < i
    <3>1. i - m \in 1..n
      BY <2>2
    <3> QED
      BY <2>2, <3>1, <1>1, <1>3, <1>4
  <2> QED
    BY <2>1, <2>2
<1>6. l = Zeros(m + n)
  BY <1>3, <1>4, <1>5, SameSequence
<1> QED
  BY <1>6 DEF l

-----------------------------------------------------------------------------
(* A file, also in the middle of a call *)

FileRecord ==
  [flags: SUBSET Flags, pos: Nat, size: Nat, head: {"inline", "list"},
   list: Seq(Byte), buffer: Seq(Byte), branch: Seq(Byte),
   offset: 0..BlockSize, room: Nat, err: {"ok", "nospc"}]

\* Contents, of any such record.
ContentsOf(g) ==
  IF Is(g, "INLINE") THEN SubSeq(g.buffer, 1, lfs_file_rawsize(g))
  ELSE IF Is(g, "WRITING") THEN g.branch \o Slice(g.list, g.pos + 1, g.size)
  ELSE g.list

InlineShape(g) ==
  /\ g.head = "inline" /\ g.list = <<>> /\ g.branch = <<>>
  /\ g.size <= Len(g.buffer) /\ Len(g.buffer) <= InlineUpTo
  /\ Is(g, "WRITING") =>
       g.pos <= Len(g.buffer) /\ g.pos <= OutlineAbove /\ g.size <= OutlineAbove

ListShape(g) ==
  /\ Len(g.buffer) <= InlineUpTo
  /\ Is(g, "WRITING") => Len(g.branch) = g.pos
  /\ ~Is(g, "WRITING") => g.branch = <<>> /\ g.head = "list"
  /\ g.head = "list" => Len(g.list) = g.size
  /\ g.head = "inline" => g.list = <<>> /\ g.size <= g.pos

\* Inline, the buffer holds the file and is no longer than what a truncation
\* leaves inline.  Not inline, what is written makes the branch; a file that
\* has just been outlined has nothing behind the position.  Appending writes
\* at the end.
Shape(g) ==
  /\ g \in FileRecord
  /\ IF Is(g, "INLINE") THEN InlineShape(g) ELSE ListShape(g)
  /\ Is(g, "WRITING") => g.pos > 0
  /\ Appending /\ Is(g, "WRITING") => g.size <= g.pos

\* The types of the fields.
LEMMA FileRecordFields == ASSUME NEW g \in FileRecord
  PROVE  /\ g.flags \subseteq Flags /\ g.pos \in Nat /\ g.size \in Nat
         /\ g.head \in {"inline", "list"}
         /\ g.list \in Seq(Byte) /\ g.buffer \in Seq(Byte) /\ g.branch \in Seq(Byte)
         /\ Len(g.list) \in Nat /\ Len(g.buffer) \in Nat /\ Len(g.branch) \in Nat
         /\ g.offset \in 0..BlockSize /\ g.room \in Nat /\ g.err \in {"ok", "nospc"}
BY DEF FileRecord

\* The size of a file, the bytes being written included.
LEMMA RawSize == ASSUME NEW g \in FileRecord
  PROVE  /\ lfs_file_rawsize(g) \in Nat
         /\ Is(g, "WRITING") => lfs_file_rawsize(g) = IF g.pos >= g.size THEN g.pos ELSE g.size
         /\ ~Is(g, "WRITING") => lfs_file_rawsize(g) = g.size
<1>1. g.pos \in Int /\ g.size \in Int /\ g.pos \in Nat /\ g.size \in Nat
  BY FileRecordFields
<1>2. Max({g.pos, g.size}) = IF g.pos >= g.size THEN g.pos ELSE g.size
  BY <1>1, MaxOfTwo
<1> QED
  BY <1>1, <1>2 DEF lfs_file_rawsize

\* The contents of an inline file.
LEMMA InlineContents == ASSUME NEW g, Shape(g), Is(g, "INLINE")
  PROVE  /\ ContentsOf(g) \in Seq(Byte)
         /\ Len(ContentsOf(g)) = lfs_file_rawsize(g)
         /\ lfs_file_rawsize(g) \in 0..Len(g.buffer)
         /\ \A i \in 1..lfs_file_rawsize(g) : ContentsOf(g)[i] = g.buffer[i]
<1>1. g \in FileRecord /\ g.size <= Len(g.buffer)
      /\ (Is(g, "WRITING") => g.pos <= Len(g.buffer))
  BY DEF Shape, InlineShape
<1>2. lfs_file_rawsize(g) \in 0..Len(g.buffer) /\ g.buffer \in Seq(Byte)
  BY <1>1, RawSize, FileRecordFields
<1>3. ContentsOf(g) = SubSeq(g.buffer, 1, lfs_file_rawsize(g))
  BY DEF ContentsOf
<1> QED
  BY <1>2, <1>3, FrontProperties

\* The contents of a list that is being written.
LEMMA BranchContents == ASSUME NEW g, Shape(g), ~Is(g, "INLINE"), Is(g, "WRITING")
  PROVE  /\ ContentsOf(g) = Over(g.branch, g.list)
         /\ ContentsOf(g) \in Seq(Byte)
         /\ Len(ContentsOf(g)) = lfs_file_rawsize(g)
         /\ Len(g.branch) = g.pos
         /\ Len(g.list) <= g.size
<1>1. g \in FileRecord /\ Len(g.branch) = g.pos
      /\ (g.head = "list" => Len(g.list) = g.size)
      /\ (g.head = "inline" => g.list = <<>> /\ g.size <= g.pos)
  BY DEF Shape, ListShape
<1>2. g.size \in Nat /\ g.pos \in Nat /\ Len(g.list) \in Nat /\ g.head \in {"inline", "list"}
      /\ g.branch \in Seq(Byte) /\ g.list \in Seq(Byte)
  BY <1>1, FileRecordFields
<1>3. Len(<<>>) = 0
  OBVIOUS
<1>4. Len(g.list) = g.size \/ (Len(g.list) = 0 /\ g.size <= g.pos)
  BY <1>1, <1>2, <1>3
<1>5. Min({g.size, Len(g.list)}) = Len(g.list)
  BY <1>2, <1>4, MinOfTwo
<1>6. ContentsOf(g) = Over(g.branch, g.list)
  BY <1>1, <1>5 DEF ContentsOf, Over, Slice
<1>7. Over(g.branch, g.list) \in Seq(Byte)
      /\ Len(Over(g.branch, g.list)) = IF g.pos >= Len(g.list) THEN g.pos ELSE Len(g.list)
  BY <1>1, <1>2, OverProperties
<1>8. lfs_file_rawsize(g) = IF g.pos >= g.size THEN g.pos ELSE g.size
  BY <1>1, RawSize
<1> QED
  BY <1>1, <1>2, <1>4, <1>6, <1>7, <1>8

\* The contents of a list that is not.
LEMMA ListContents == ASSUME NEW g, Shape(g), ~Is(g, "INLINE"), ~Is(g, "WRITING")
  PROVE  /\ ContentsOf(g) = g.list /\ g.list \in Seq(Byte)
         /\ Len(g.list) = g.size /\ lfs_file_rawsize(g) = g.size
         /\ g.head = "list" /\ g.branch = <<>>
<1>1. g \in FileRecord /\ g.head = "list" /\ Len(g.list) = g.size /\ g.branch = <<>>
  BY DEF Shape, ListShape
<1> QED
  BY <1>1, RawSize, FileRecordFields DEF ContentsOf

\* The contents are bytes, as many as lfs_file_rawsize says.
LEMMA ContentsProperties == ASSUME NEW g, Shape(g)
  PROVE  /\ ContentsOf(g) \in Seq(Byte)
         /\ Len(ContentsOf(g)) = lfs_file_rawsize(g)
         /\ lfs_file_rawsize(g) \in Nat
<1>1. lfs_file_rawsize(g) \in Nat
  BY RawSize DEF Shape
<1> QED
  BY <1>1, InlineContents, BranchContents, ListContents

-----------------------------------------------------------------------------
(* lfs_file_flushedwrite *)

\* A file to which n bytes can be written at its position.
Ready(g, n) ==
  /\ Shape(g) /\ Ok(g)
  /\ g.pos <= lfs_file_rawsize(g)
  /\ Appending => g.size <= g.pos
  /\ Is(g, "INLINE") /\ g.size > OutlineAbove => g.size <= g.pos + n

\* From g to w the bytes d were written, as far as w.err tells.
WroteTo(g, d, k, w) ==
  /\ w.pos = g.pos + k
  /\ ContentsOf(w) = Put(ContentsOf(g), g.pos, SubSeq(d, 1, k))
  /\ Ok(w) => k = Len(d)

Wrote(g, d, w) ==
  /\ Shape(w) /\ w.size = g.size
  /\ \E k \in 0..Len(d) : WroteTo(g, d, k, w)
  /\ Is(w, "ERRED") <=> Is(g, "ERRED") \/ ~Ok(w)
  /\ Is(w, "DIRTY") <=> Is(g, "DIRTY")
  /\ Is(g, "WRITING") => Is(w, "WRITING")
  /\ ~Is(w, "WRITING") => ContentsOf(w) = ContentsOf(g)
  /\ Is(w, "INLINE") => Is(g, "INLINE")

\* The whole of a sequence is the sequence.
LEMMA AllOf == ASSUME NEW S, NEW d \in Seq(S)
  PROVE  Len(d) \in 0..Len(d) /\ SubSeq(d, 1, Len(d)) = d /\ SubSeq(d, 1, 0) = <<>> /\ 0 \in 0..Len(d)
BY SubSeqFull, SubSeqEmpty

\* A write of nothing writes nothing.
LEMMA NothingWritten == ASSUME NEW g, Shape(g), Ok(g), g.pos <= lfs_file_rawsize(g),
                               NEW d \in Seq(Byte)
  PROVE  /\ Put(ContentsOf(g), g.pos, SubSeq(d, 1, 0)) = ContentsOf(g)
         /\ g.pos + 0 = g.pos /\ g.pos \in 0..Len(ContentsOf(g))
<1>1. g.pos \in Nat
  BY FileRecordFields DEF Shape
<1>2. ContentsOf(g) \in Seq(Byte) /\ g.pos \in 0..Len(ContentsOf(g))
  BY <1>1, ContentsProperties
<1>3. SubSeq(d, 1, 0) = <<>>
  BY AllOf
<1>4. Put(ContentsOf(g), g.pos, <<>>) = ContentsOf(g)
  BY <1>2, PutNothing
<1>5. Put(ContentsOf(g), g.pos, SubSeq(d, 1, 0)) = ContentsOf(g)
  BY <1>3, <1>4
<1>6. g.pos + 0 = g.pos
  BY <1>1
<1> QED
  BY <1>2, <1>5, <1>6

\* A write that leaves the file inline.
LEMMA InlineWrite ==
  ASSUME NEW g, NEW d \in Seq(Byte), Ready(g, Len(d)), Is(g, "INLINE"), StaysInline(g, Len(d))
  PROVE  Wrote(g, d, WriteInline(g, d)) /\ Ok(WriteInline(g, d))
<1> SUFFICES ASSUME NEW w, w = WriteInline(g, d)
             PROVE  Wrote(g, d, w) /\ Ok(w)
  OBVIOUS
<1> DEFINE n == Len(d)
           b == Put(g.buffer, g.pos, d)
<1>1. g \in FileRecord /\ Shape(g) /\ Ok(g) /\ g.pos <= lfs_file_rawsize(g)
  BY DEF Ready, Shape
<1>2. /\ g.flags \subseteq Flags /\ g.pos \in Nat /\ g.size \in Nat /\ g.buffer \in Seq(Byte)
      /\ Len(g.buffer) \in Nat
  BY <1>1, FileRecordFields
<1>3. n \in Nat
  OBVIOUS
<1>4. /\ ContentsOf(g) \in Seq(Byte)
      /\ Len(ContentsOf(g)) = lfs_file_rawsize(g)
      /\ lfs_file_rawsize(g) \in 0..Len(g.buffer)
      /\ \A i \in 1..lfs_file_rawsize(g) : ContentsOf(g)[i] = g.buffer[i]
  BY <1>1, InlineContents
<1>5. CASE d = <<>>
  <2>1. w = g /\ Len(d) = 0
    BY <1>5 DEF WriteInline
  <2>2. WroteTo(g, d, 0, g)
    BY <1>1, <2>1, NothingWritten DEF WroteTo
  <2>3. 0 \in 0..Len(d)
    BY <2>1
  <2> QED
    BY <1>1, <2>1, <2>2, <2>3 DEF Wrote, Ok
<1>6. CASE d # <<>>
  <2>1. w = [[g EXCEPT !.flags = @ \cup {"WRITING"}] EXCEPT !.buffer = Put(@, g.pos, d), !.pos = @ + Len(d)]
    BY <1>6 DEF WriteInline, Add
  <2>2. g.pos + n <= OutlineAbove /\ g.size <= OutlineAbove
    <3>1. Max({g.pos + n, g.size}) <= OutlineAbove
      BY DEF StaysInline
    <3>2. g.pos + n \in Int /\ g.size \in Int /\ OutlineAbove \in Int
      BY <1>2, <1>3, Constants
    <3> QED
      BY <3>1, <3>2, MaxOfTwo
  <2>3. b \in Seq(Byte) /\ Len(b) = (IF g.pos + n >= Len(g.buffer) THEN g.pos + n ELSE Len(g.buffer))
        /\ \A i \in 1..Len(b) : b[i] = IF i <= g.pos THEN g.buffer[i]
                                       ELSE IF i <= g.pos + n THEN d[i - g.pos] ELSE g.buffer[i]
    <3>1. g.pos \in 0..Len(g.buffer)
      BY <1>1, <1>2, <1>4
    <3> QED
      BY <1>2, <3>1, PutProperties
  <2> HIDE DEF b
  <2>4. /\ w.flags = g.flags \cup {"WRITING"} /\ w.pos = g.pos + n /\ w.size = g.size
        /\ w.head = g.head /\ w.list = g.list /\ w.buffer = b /\ w.branch = g.branch
        /\ w.offset = g.offset /\ w.room = g.room /\ w.err = g.err
        /\ w \in FileRecord
    <3> DEFINE fl == g.flags \cup {"WRITING"}
               q == g.pos + n
    <3>1. b = Put(g.buffer, g.pos, d)
      BY DEF b
    <3>2. w = [g EXCEPT !.flags = fl, !.buffer = b, !.pos = q]
      BY <1>1, <2>1, <3>1 DEF FileRecord
    <3>3. fl \in SUBSET Flags /\ q \in Nat
      BY <1>2, <1>3 DEF Flags
    <3> HIDE DEF fl, q
    <3>4. /\ w.flags = fl /\ w.pos = q /\ w.size = g.size
          /\ w.head = g.head /\ w.list = g.list /\ w.buffer = b /\ w.branch = g.branch
          /\ w.offset = g.offset /\ w.room = g.room /\ w.err = g.err
          /\ w \in FileRecord
      BY <1>1, <2>3, <3>2, <3>3 DEF FileRecord
    <3> QED
      BY <3>4 DEF fl, q
  <2>5. Is(w, "INLINE") /\ Is(w, "WRITING") /\ (Is(w, "ERRED") <=> Is(g, "ERRED"))
        /\ (Is(w, "DIRTY") <=> Is(g, "DIRTY")) /\ Ok(w)
    BY <1>1, <2>4 DEF Is, Ok
  <2>6. InlineShape(g)
    BY <1>1 DEF Shape
  <2>7. Len(b) <= InlineUpTo /\ g.pos + n <= Len(b) /\ g.size <= Len(b)
    BY <1>2, <1>3, <2>2, <2>3, <2>6, Constants DEF InlineShape
  <2>8. InlineShape(w)
    BY <2>2, <2>4, <2>6, <2>7 DEF InlineShape
  <2>9. g.size <= w.pos \/ ~Appending
    BY <1>2, <1>3, <2>4 DEF Ready
  <2>10. w.pos > 0
    <3>1. n > 0
      BY <1>6, <1>3, EmptySeq
    <3> QED
      BY <1>2, <1>3, <2>4, <3>1
  <2>11. Shape(w)
    BY <2>4, <2>5, <2>8, <2>9, <2>10 DEF Shape
  <2>12. /\ ContentsOf(w) \in Seq(Byte)
         /\ Len(ContentsOf(w)) = lfs_file_rawsize(w)
         /\ lfs_file_rawsize(w) \in 0..Len(b)
         /\ \A i \in 1..lfs_file_rawsize(w) : ContentsOf(w)[i] = b[i]
    BY <2>4, <2>5, <2>11, InlineContents
  <2>13. lfs_file_rawsize(w) = IF g.pos + n >= g.size THEN g.pos + n ELSE g.size
    BY <2>4, <2>5, RawSize
  <2>14. lfs_file_rawsize(g) = IF g.pos >= g.size THEN g.pos ELSE g.size
    <3>1. ~Is(g, "WRITING") => lfs_file_rawsize(g) = g.size /\ g.pos <= g.size
      BY <1>1, RawSize
    <3> QED
      BY <1>1, <1>2, <3>1, RawSize
  <2>15. ContentsOf(w) = Put(ContentsOf(g), g.pos, d)
    <3> DEFINE c == ContentsOf(g)
               r == Put(c, g.pos, d)
    <3>1. g.pos \in 0..Len(c)
      BY <1>1, <1>2, <1>4
    <3>2. r \in Seq(Byte) /\ Len(r) = (IF g.pos + n >= Len(c) THEN g.pos + n ELSE Len(c))
          /\ \A i \in 1..Len(r) : r[i] = IF i <= g.pos THEN c[i]
                                         ELSE IF i <= g.pos + n THEN d[i - g.pos] ELSE c[i]
      BY <1>4, <3>1, PutProperties
    <3> HIDE DEF r, c
    <3>3. Len(c) = lfs_file_rawsize(g) /\ \A i \in 1..Len(c) : c[i] = g.buffer[i]
      BY <1>4 DEF c
    <3>4. Len(r) = lfs_file_rawsize(w) /\ lfs_file_rawsize(w) \in Nat /\ Len(c) \in Nat
      BY <1>2, <1>3, <2>13, <2>14, <3>2, <3>3
    <3>5. ASSUME NEW i \in 1..Len(r) PROVE ContentsOf(w)[i] = r[i]
      <4>1. i \in Nat /\ i \in 1..lfs_file_rawsize(w) /\ i \in 1..Len(b)
        BY <2>12, <3>4
      <4>2. ContentsOf(w)[i] = b[i]
        BY <2>12, <4>1
      <4>3. b[i] = IF i <= g.pos THEN g.buffer[i]
                   ELSE IF i <= g.pos + n THEN d[i - g.pos] ELSE g.buffer[i]
        BY <2>3, <4>1
      <4>4. r[i] = IF i <= g.pos THEN c[i] ELSE IF i <= g.pos + n THEN d[i - g.pos] ELSE c[i]
        BY <3>2
      <4>5. i \in 1..Len(c) \/ (g.pos < i /\ i <= g.pos + n)
        <5>1. Len(r) = (IF g.pos + n >= Len(c) THEN g.pos + n ELSE Len(c)) /\ g.pos <= Len(c)
          BY <3>1, <3>2, <3>3
        <5> QED
          BY <4>1, <5>1, <1>2, <1>3, <3>4
      <4>6. i \in 1..Len(c) => c[i] = g.buffer[i]
        BY <3>3
      <4> QED
        BY <4>2, <4>3, <4>4, <4>5, <4>6, <1>2, <1>3
    <3>6. ContentsOf(w) = r
      BY <2>12, <3>2, <3>4, <3>5, SameSequence
    <3> QED
      BY <3>6 DEF r, c
  <2>16. WroteTo(g, d, n, w)
    BY <2>4, <2>15, AllOf DEF WroteTo
  <2> QED
    BY <1>3, <2>4, <2>5, <2>11, <2>16, AllOf DEF Wrote
<1> QED
  BY <1>5, <1>6

\* A file whose bytes in front of the position are at hand, in its branch or
\* in its list.
Based(g) ==
  /\ g \in FileRecord /\ ~Is(g, "INLINE") /\ Ok(g)
  /\ Is(g, "WRITING") => Len(g.branch) = g.pos
  /\ ~Is(g, "WRITING") => g.pos <= Len(g.list)

Base(g) == IF Is(g, "WRITING") THEN g.branch ELSE SubSeq(g.list, 1, g.pos)

\* The base is bytes, up to the position.
LEMMA BaseProperties == ASSUME NEW g, Based(g)
  PROVE  Base(g) \in Seq(Byte) /\ Len(Base(g)) = g.pos
<1>1. g.pos \in Nat /\ g.list \in Seq(Byte) /\ g.branch \in Seq(Byte)
  BY FileRecordFields DEF Based
<1>2. CASE Is(g, "WRITING")
  BY <1>1, <1>2 DEF Based, Base
<1>3. CASE ~Is(g, "WRITING")
  <2>1. g.pos \in 0..Len(g.list) /\ Base(g) = SubSeq(g.list, 1, g.pos)
    BY <1>1, <1>3 DEF Based, Base
  <2> QED
    BY <1>1, <2>1, FrontProperties
<1> QED
  BY <1>2, <1>3

\* What is left of the block takes no other block.
LEMMA BlocksForProperties == ASSUME NEW g \in FileRecord, NEW n \in Nat
  PROVE  /\ BlocksFor(g, n) \in Nat /\ Left(g) \in Nat
         /\ n <= Left(g) => BlocksFor(g, n) = 0
<1>1. BlockSize \in Nat /\ BlockSize > 0 /\ g.offset \in 0..BlockSize /\ g.pos \in Nat
  BY Constants, FileRecordFields
<1>2. Left(g) \in Nat
  BY <1>1 DEF Left
<1>3. Copied(g) \in Nat
  BY <1>1, QuotientInNat DEF Copied
<1> DEFINE a == n - Left(g) + Copied(g) + BlockSize - 1
<1>4. n > Left(g) => a \in Nat
  <2> DEFINE l == Left(g)
             k == Copied(g)
  <2>1. l \in Nat /\ k \in Nat
    BY <1>2, <1>3
  <2> HIDE DEF l, k
  <2>2. n > l => n - l + k + BlockSize - 1 \in Nat
    BY <1>1, <2>1
  <2> QED
    BY <2>2 DEF l, k
<1>5. n > Left(g) => BlocksFor(g, n) = a \div BlockSize
  BY <1>2 DEF BlocksFor
<1> HIDE DEF a
<1>6. n > Left(g) => BlocksFor(g, n) \in Nat
  BY <1>1, <1>4, <1>5, QuotientInNat
<1>7. n <= Left(g) => BlocksFor(g, n) = 0
  BY DEF BlocksFor
<1> QED
  BY <1>2, <1>6, <1>7

\* The bytes that there are blocks for.
LEMMA WriteListStopsWhere ==
  ASSUME NEW g \in FileRecord, NEW d \in Seq(Byte)
  PROVE  \E n \in 0..Len(d) :
           /\ WriteList(g, d) = WriteFirst(g, d, n)
           /\ BlocksFor(g, n) <= g.room
           /\ \A k \in 0..Len(d) : k <= Left(g) => k <= n
<1> DEFINE T == {k \in 0..Len(d) : BlocksFor(g, k) <= g.room}
<1>1. Len(d) \in Nat /\ g.room \in Nat
  BY FileRecordFields
<1>2. ASSUME NEW k \in 0..Len(d), k <= Left(g) PROVE k \in T
  BY <1>1, <1>2, BlocksForProperties
<1>3. 0 \in T
  <2>1. 0 \in 0..Len(d) /\ 0 <= Left(g)
    <3>1. 0 \in Nat
      OBVIOUS
    <3>2. Left(g) \in Nat
      BY <3>1, BlocksForProperties
    <3> QED
      BY <1>1, <3>2
  <2> QED
    BY <1>2, <2>1
<1>4. T \in SUBSET (0..Len(d)) /\ T # {}
  BY <1>3
<1>5. Max(T) \in T /\ \A y \in T : y <= Max(T)
  BY <1>1, <1>4, GreatestOfSome
<1>6. WriteList(g, d) = WriteFirst(g, d, Max(T))
  BY DEF WriteList
<1> HIDE DEF T
<1>7. Max(T) \in 0..Len(d) /\ BlocksFor(g, Max(T)) <= g.room
  BY <1>5 DEF T
<1>8. \A k \in 0..Len(d) : k <= Left(g) => k <= Max(T)
  BY <1>2, <1>5
<1> QED
  BY <1>6, <1>7, <1>8

\* What such a write makes of the file.
ListGrown(g, d, n, w) ==
  /\ w \in FileRecord
  /\ w.flags = g.flags \cup {"WRITING"} /\ w.pos = g.pos + n /\ w.size = g.size
  /\ w.head = g.head /\ w.list = g.list /\ w.buffer = g.buffer
  /\ w.branch = Base(g) \o SubSeq(d, 1, n)
  /\ w.branch \in Seq(Byte) /\ Len(w.branch) = g.pos + n
  /\ w.err = IF n < Len(d) THEN "nospc" ELSE "ok"

\* The fields after some bytes have gone to the branch.
LEMMA WriteSomeFields ==
  ASSUME NEW g, Based(g), NEW d \in Seq(Byte), NEW n \in 1..Len(d), BlocksFor(g, n) <= g.room,
         NEW w, w = WriteFirst(g, d, n)
  PROVE  ListGrown(g, d, n, w)
<1> DEFINE fl == g.flags \cup {"WRITING"}
           q == g.pos + n
           b == Base(g) \o SubSeq(d, 1, n)
           o == ((g.pos + n - 1) % BlockSize) + 1
           r == g.room - BlocksFor(g, n)
           e == IF n < Len(d) THEN "nospc" ELSE "ok"
<1>1. g \in FileRecord /\ Len(d) \in Nat /\ n \in Nat /\ n > 0
  BY DEF Based
<1>2. /\ g.flags \subseteq Flags /\ g.pos \in Nat /\ g.room \in Nat
      /\ BlockSize \in Nat /\ BlockSize > 0
  BY <1>1, FileRecordFields, Constants
<1>3. fl \in SUBSET Flags /\ q \in Nat /\ e \in {"ok", "nospc"}
  BY <1>1, <1>2 DEF Flags
<1>4. r \in Nat
  <2>1. BlocksFor(g, n) \in Nat
    BY <1>1, BlocksForProperties
  <2> QED
    BY <1>2, <2>1
<1>5. o \in 0..BlockSize
  <2>1. g.pos + n - 1 \in Nat
    BY <1>1, <1>2
  <2> DEFINE m == (g.pos + n - 1) % BlockSize
  <2>2. m \in 0..(BlockSize - 1)
    BY <1>2, <2>1, QuotientInNat
  <2> HIDE DEF m
  <2>3. m + 1 \in 0..BlockSize
    BY <1>2, <2>2
  <2> QED
    BY <2>3 DEF m
<1>6. b \in Seq(Byte) /\ Len(b) = g.pos + n
  <2>1. SubSeq(d, 1, n) \in Seq(Byte) /\ Len(SubSeq(d, 1, n)) = n
    BY <1>1, FrontProperties
  <2> QED
    BY <2>1, BaseProperties, ConcatProperties
<1>7. w = [g EXCEPT !.flags = fl, !.branch = b, !.pos = q, !.offset = o, !.room = r, !.err = e]
  <2>1. w = [[[g EXCEPT !.flags = @ \cup {"WRITING"}] EXCEPT
               !.branch = b, !.pos = @ + n, !.offset = o, !.room = @ - BlocksFor(g, n)] EXCEPT !.err = e]
    <3>1. n # 0
      BY <1>1
    <3> QED
      BY <3>1, Zenon DEF WriteFirst, Add, Base
  <2> HIDE DEF b, o, e
  <2> QED
    BY <1>1, <2>1 DEF FileRecord
<1> HIDE DEF fl, q, b, o, r, e
<1>8. /\ w.flags = fl /\ w.pos = q /\ w.size = g.size /\ w.head = g.head /\ w.list = g.list
      /\ w.buffer = g.buffer /\ w.branch = b /\ w.err = e /\ w \in FileRecord
  BY <1>1, <1>3, <1>4, <1>5, <1>6, <1>7 DEF FileRecord
<1> QED
  BY <1>6, <1>8 DEF ListGrown, fl, q, b, e

\* The fields after as many bytes as there was room for.
LEMMA WriteFirstFields ==
  ASSUME NEW g, Based(g), NEW d \in Seq(Byte), NEW n \in 0..Len(d), BlocksFor(g, n) <= g.room,
         n # 0 \/ Is(g, "WRITING"), NEW w, w = WriteFirst(g, d, n)
  PROVE  ListGrown(g, d, n, w)
<1>1. CASE n # 0
  <2>1. n \in 1..Len(d)
    BY <1>1
  <2> QED
    BY <2>1, WriteSomeFields
<1>2. CASE n = 0
  <2> DEFINE e == IF n < Len(d) THEN "nospc" ELSE "ok"
  <2>1. w = [g EXCEPT !.err = e]
    BY <1>2, Zenon DEF WriteFirst
  <2>2. e \in {"ok", "nospc"} /\ g \in FileRecord
    BY DEF Based
  <2> HIDE DEF e
  <2>3. /\ w.flags = g.flags /\ w.pos = g.pos /\ w.size = g.size /\ w.head = g.head
        /\ w.list = g.list /\ w.buffer = g.buffer /\ w.branch = g.branch /\ w.err = e
        /\ w \in FileRecord
    BY <2>1, <2>2 DEF FileRecord
  <2>4. Is(g, "WRITING") /\ g.flags = g.flags \cup {"WRITING"}
    BY <1>2 DEF Is
  <2>5. Base(g) \in Seq(Byte) /\ Len(Base(g)) = g.pos /\ Base(g) = g.branch /\ g.pos \in Nat
    BY <2>2, <2>4, BaseProperties, FileRecordFields DEF Base
  <2>6. SubSeq(d, 1, n) = <<>>
    BY <1>2, AllOf
  <2>7. Base(g) \o SubSeq(d, 1, n) = g.branch
    BY <2>5, <2>6, ConcatEmptySeq
  <2>8. g.pos + n = g.pos
    BY <1>2, <2>5
  <2> QED
    BY <2>3, <2>4, <2>5, <2>7, <2>8 DEF ListGrown, e
<1> QED
  BY <1>1, <1>2

\* A write that fails sets LFS_F_ERRED and nothing else.
MaybeErred(g, w) ==
  /\ w \in FileRecord
  /\ w.flags = g.flags \cup (IF Ok(g) THEN {} ELSE {"ERRED"})
  /\ w.pos = g.pos /\ w.size = g.size /\ w.head = g.head /\ w.list = g.list
  /\ w.buffer = g.buffer /\ w.branch = g.branch /\ w.offset = g.offset
  /\ w.room = g.room /\ w.err = g.err

\* That is what ErredUnlessOk does.
LEMMA ErredFields == ASSUME NEW g \in FileRecord, NEW w, w = ErredUnlessOk(g)
  PROVE  MaybeErred(g, w)
<1> USE DEF MaybeErred
<1>1. CASE Ok(g)
  BY <1>1, FileRecordFields DEF ErredUnlessOk
<1>2. CASE ~Ok(g)
  <2> DEFINE fl == g.flags \cup {"ERRED"}
  <2>1. fl \in SUBSET Flags
    BY FileRecordFields DEF Flags
  <2>2. w = [g EXCEPT !.flags = fl]
    BY <1>2 DEF ErredUnlessOk, Add, FileRecord
  <2> HIDE DEF fl
  <2>3. /\ w.flags = fl /\ w.pos = g.pos /\ w.size = g.size /\ w.head = g.head /\ w.list = g.list
        /\ w.buffer = g.buffer /\ w.branch = g.branch /\ w.offset = g.offset
        /\ w.room = g.room /\ w.err = g.err /\ w \in FileRecord
    BY <2>1, <2>2 DEF FileRecord
  <2> QED
    BY <1>2, <2>3 DEF fl
<1> QED
  BY <1>1, <1>2

\* What is laid over a sequence hides its front.
LEMMA OverFront == ASSUME NEW S, NEW c \in Seq(S), NEW p \in 0..Len(c)
  PROVE  Over(SubSeq(c, 1, p), c) = c
<1> DEFINE b == SubSeq(c, 1, p)
           o == Over(b, c)
<1>1. b \in Seq(S) /\ Len(b) = p /\ \A i \in 1..p : b[i] = c[i]
  BY FrontProperties
<1> HIDE DEF b
<1>2. o \in Seq(S) /\ Len(o) = (IF Len(b) >= Len(c) THEN Len(b) ELSE Len(c))
      /\ \A i \in 1..Len(o) : o[i] = IF i <= Len(b) THEN b[i] ELSE c[i]
  BY <1>1, OverProperties
<1> HIDE DEF o
<1>3. Len(o) = Len(c) /\ \A i \in 1..Len(o) : o[i] = c[i]
  BY <1>1, <1>2
<1>4. o = c
  BY <1>2, <1>3, SameSequence
<1> QED
  BY <1>4 DEF o, b

\* Bytes put behind the base are laid over what lies under it.
LEMMA PutOver ==
  ASSUME NEW S, NEW b \in Seq(S), NEW c \in Seq(S), NEW d \in Seq(S)
  PROVE  Put(Over(b, c), Len(b), d) = Over(b \o d, c)
<1> DEFINE o == Over(b, c)
           p == Len(b)
           l == Put(o, p, d)
           bd == b \o d
           r == Over(bd, c)
<1>1. p \in Nat /\ Len(d) \in Nat /\ Len(c) \in Nat
  OBVIOUS
<1>2. o \in Seq(S) /\ Len(o) = (IF p >= Len(c) THEN p ELSE Len(c))
      /\ \A i \in 1..Len(o) : o[i] = IF i <= p THEN b[i] ELSE c[i]
  BY OverProperties
<1>3. bd \in Seq(S) /\ Len(bd) = p + Len(d)
      /\ \A i \in 1..(p + Len(d)) : bd[i] = IF i <= p THEN b[i] ELSE d[i - p]
  BY ConcatProperties
<1> HIDE DEF o, bd, p
<1>4. r \in Seq(S) /\ Len(r) = (IF Len(bd) >= Len(c) THEN Len(bd) ELSE Len(c))
      /\ \A i \in 1..Len(r) : r[i] = IF i <= Len(bd) THEN bd[i] ELSE c[i]
  BY <1>3, OverProperties
<1>5. p \in 0..Len(o)
  BY <1>1, <1>2
<1>6. l \in Seq(S) /\ Len(l) = (IF p + Len(d) >= Len(o) THEN p + Len(d) ELSE Len(o))
      /\ \A i \in 1..Len(l) : l[i] = IF i <= p THEN o[i] ELSE IF i <= p + Len(d) THEN d[i - p] ELSE o[i]
  BY <1>2, <1>5, PutProperties
<1> HIDE DEF l, r
<1>7. Len(o) = (IF p >= Len(c) THEN p ELSE Len(c)) /\ Len(bd) = p + Len(d)
  BY <1>2, <1>3
<1>8. Len(l) = (IF p + Len(d) >= Len(o) THEN p + Len(d) ELSE Len(o))
      /\ Len(r) = (IF Len(bd) >= Len(c) THEN Len(bd) ELSE Len(c))
  BY <1>4, <1>6
<1>9. Len(l) = Len(r) /\ Len(l) \in Nat /\ Len(o) \in Nat
  BY <1>1, <1>7, <1>8
<1>10. ASSUME NEW i \in 1..Len(l) PROVE l[i] = r[i]
  <2>1. i \in Nat /\ 1 <= i /\ i \in 1..Len(r)
    BY <1>9
  <2>2. l[i] = IF i <= p THEN o[i] ELSE IF i <= p + Len(d) THEN d[i - p] ELSE o[i]
    BY <1>6
  <2>3. r[i] = IF i <= Len(bd) THEN bd[i] ELSE c[i]
    BY <1>4, <2>1
  <2>4. i \in 1..Len(o) => o[i] = IF i <= p THEN b[i] ELSE c[i]
    BY <1>2
  <2>5. i \in 1..(p + Len(d)) => bd[i] = IF i <= p THEN b[i] ELSE d[i - p]
    BY <1>3
  <2>6. i <= p \/ i > p + Len(d) => i \in 1..Len(o)
    BY <2>1, <1>1, <1>7, <1>8
  <2> QED
    BY <2>1, <2>2, <2>3, <2>4, <2>5, <2>6, <1>1, <1>7
<1>11. l = r
  BY <1>4, <1>6, <1>9, <1>10, SameSequence
<1> QED
  BY <1>11 DEF l, r, o, bd, p

\* Nothing lies under it.
LEMMA OverEmpty == ASSUME NEW S, NEW b \in Seq(S)
  PROVE  Over(b, <<>>) = b
<1> DEFINE e == <<>>
           o == Over(b, e)
<1>1. e \in Seq(S) /\ Len(e) = 0 /\ Len(b) \in Nat
  OBVIOUS
<1> HIDE DEF e
<1>2. o \in Seq(S) /\ Len(o) = (IF Len(b) >= Len(e) THEN Len(b) ELSE Len(e))
      /\ \A i \in 1..Len(o) : o[i] = IF i <= Len(b) THEN b[i] ELSE e[i]
  BY <1>1, OverProperties
<1> HIDE DEF o
<1>3. Len(o) = Len(b) /\ \A i \in 1..Len(o) : o[i] = b[i]
  BY <1>1, <1>2
<1>4. o = b
  BY <1>2, <1>3, SameSequence
<1> QED
  BY <1>4 DEF o, e

\* A file that is not inline is its base, and its list behind that.
LEMMA ContentsOverBase ==
  ASSUME NEW g, Shape(g), ~Is(g, "INLINE"), Ok(g), g.pos <= lfs_file_rawsize(g)
  PROVE  Based(g) /\ ContentsOf(g) = Over(Base(g), g.list)
<1>1. CASE Is(g, "WRITING")
  BY <1>1, BranchContents DEF Based, Base, Shape
<1>2. CASE ~Is(g, "WRITING")
  <2>1. ContentsOf(g) = g.list /\ g.list \in Seq(Byte) /\ g.pos \in 0..Len(g.list)
        /\ g \in FileRecord
    <3>1. g.pos \in Nat /\ g \in FileRecord
      BY FileRecordFields DEF Shape
    <3> QED
      BY <1>2, <3>1, ListContents
  <2>2. Base(g) = SubSeq(g.list, 1, g.pos)
    BY <1>2 DEF Base
  <2>3. Over(Base(g), g.list) = g.list
    BY <2>1, <2>2, OverFront
  <2> QED
    BY <1>2, <2>1, <2>3 DEF Based
<1> QED
  BY <1>1, <1>2

\* A write that fails before it has written anything.
LEMMA FailedWrite ==
  ASSUME NEW g, NEW d \in Seq(Byte), Ready(g, Len(d)), NEW w \in FileRecord,
         w.flags = g.flags \cup {"ERRED"}, w.err = "nospc",
         w.pos = g.pos, w.size = g.size, w.head = g.head, w.list = g.list,
         w.buffer = g.buffer, w.branch = g.branch
  PROVE  Wrote(g, d, w)
<1>1. Shape(g) /\ Ok(g) /\ g.pos <= lfs_file_rawsize(g)
  BY DEF Ready
<1>2. /\ Is(w, "INLINE") <=> Is(g, "INLINE")
      /\ Is(w, "WRITING") <=> Is(g, "WRITING")
      /\ Is(w, "DIRTY") <=> Is(g, "DIRTY")
      /\ Is(w, "ERRED") /\ ~Ok(w)
  BY DEF Is, Ok
<1>3. Shape(w)
  BY <1>1, <1>2 DEF Shape, InlineShape, ListShape
<1>4. ContentsOf(w) = ContentsOf(g)
  BY <1>2 DEF ContentsOf, lfs_file_rawsize
<1>5. WroteTo(g, d, 0, w)
  BY <1>1, <1>2, <1>4, NothingWritten DEF WroteTo
<1> QED
  BY <1>2, <1>3, <1>4, <1>5, AllOf DEF Wrote

\* A write to a file that is not inline.
LEMMA ListWrite ==
  ASSUME NEW g, NEW d \in Seq(Byte), Ready(g, Len(d)), ~Is(g, "INLINE")
  PROVE  Wrote(g, d, ErredUnlessOk(WriteList(g, d)))
<1>1. Shape(g) /\ g \in FileRecord /\ Ok(g) /\ g.pos <= lfs_file_rawsize(g)
      /\ (Appending => g.size <= g.pos)
  BY DEF Ready, Shape
<1>2. Based(g) /\ ContentsOf(g) = Over(Base(g), g.list)
  BY <1>1, ContentsOverBase
<1>3. g.pos \in Nat /\ g.size \in Nat /\ g.list \in Seq(Byte) /\ Len(d) \in Nat
  BY <1>1, FileRecordFields
<1>4. PICK n \in 0..Len(d) : WriteList(g, d) = WriteFirst(g, d, n) /\ BlocksFor(g, n) <= g.room
  BY <1>1, WriteListStopsWhere
<1>5. SUFFICES ASSUME NEW v, NEW w, v = WriteFirst(g, d, n), w = ErredUnlessOk(v)
               PROVE  Wrote(g, d, w)
  BY <1>4
<1>6. CASE n # 0 \/ Is(g, "WRITING")
  <2>1. /\ v \in FileRecord
        /\ v.flags = g.flags \cup {"WRITING"} /\ v.pos = g.pos + n /\ v.size = g.size
        /\ v.head = g.head /\ v.list = g.list /\ v.buffer = g.buffer
        /\ v.branch = Base(g) \o SubSeq(d, 1, n)
        /\ v.branch \in Seq(Byte) /\ Len(v.branch) = g.pos + n
        /\ v.err = IF n < Len(d) THEN "nospc" ELSE "ok"
    <3>1. Based(g) /\ BlocksFor(g, n) <= g.room /\ v = WriteFirst(g, d, n)
      BY <1>2, <1>4, <1>5
    <3>2. ListGrown(g, d, n, v)
      BY <3>1, <1>6, WriteFirstFields
    <3> QED
      BY <3>2 DEF ListGrown
  <2>2. /\ w \in FileRecord
        /\ w.flags = v.flags \cup (IF Ok(v) THEN {} ELSE {"ERRED"})
        /\ w.pos = v.pos /\ w.size = v.size /\ w.head = v.head /\ w.list = v.list
        /\ w.branch = v.branch /\ w.buffer = v.buffer /\ w.err = v.err
    <3>1. MaybeErred(v, w)
      BY <1>5, <2>1, ErredFields
    <3> QED
      BY <3>1 DEF MaybeErred
  <2>3. /\ ~Is(w, "INLINE") /\ Is(w, "WRITING")
        /\ Is(w, "DIRTY") <=> Is(g, "DIRTY")
        /\ Is(w, "ERRED") <=> Is(g, "ERRED") \/ ~Ok(w)
    BY <2>1, <2>2 DEF Is, Ok
  <2>4. ListShape(w)
    <3>1. ListShape(g)
      BY <1>1 DEF Shape
    <3>2. /\ Len(g.buffer) <= InlineUpTo
          /\ g.head = "list" => Len(g.list) = g.size
          /\ g.head = "inline" => g.list = <<>> /\ g.size <= g.pos
      BY <3>1 DEF ListShape
    <3>3. w.buffer = g.buffer /\ w.list = g.list /\ w.head = g.head /\ w.size = g.size
          /\ w.pos = g.pos + n /\ Len(w.branch) = w.pos
      BY <2>1, <2>2
    <3>4. ASSUME g.size <= g.pos PROVE g.size <= g.pos + n
      <4>1. n \in Nat
        OBVIOUS
      <4> QED
        BY <1>3, <3>4, <4>1
    <3>5. w.head = "inline" => w.list = <<>> /\ w.size <= w.pos
      BY <3>2, <3>3, <3>4
    <3> QED
      BY <2>3, <3>2, <3>3, <3>5 DEF ListShape
  <2>5. w.pos > 0
    <3>1. Is(g, "WRITING") => g.pos > 0
      BY <1>1 DEF Shape
    <3> QED
      BY <1>3, <1>6, <2>1, <2>2, <3>1
  <2>6. Shape(w)
    BY <1>1, <1>3, <2>1, <2>2, <2>3, <2>4, <2>5 DEF Shape
  <2>7. ContentsOf(w) = Over(w.branch, w.list)
    BY <2>3, <2>6, BranchContents
  <2>8. SubSeq(d, 1, n) \in Seq(Byte)
    BY FrontProperties
  <2>9. Put(Over(Base(g), g.list), g.pos, SubSeq(d, 1, n)) = Over(Base(g) \o SubSeq(d, 1, n), g.list)
    BY <1>2, <1>3, <2>8, BaseProperties, PutOver
  <2>10. ContentsOf(w) = Put(ContentsOf(g), g.pos, SubSeq(d, 1, n))
    BY <1>2, <2>1, <2>2, <2>7, <2>9
  <2>11. Ok(w) => n = Len(d)
    BY <1>3, <2>1, <2>2 DEF Ok
  <2>12. WroteTo(g, d, n, w)
    BY <2>1, <2>2, <2>10, <2>11 DEF WroteTo
  <2> QED
    BY <2>1, <2>2, <2>3, <2>6, <2>12 DEF Wrote
<1>7. CASE n = 0 /\ ~Is(g, "WRITING")
  <2> DEFINE e == IF n < Len(d) THEN "nospc" ELSE "ok"
  <2>1. v = [g EXCEPT !.err = e]
    BY <1>7, <1>5, Zenon DEF WriteFirst
  <2>2. e \in {"ok", "nospc"} /\ (e = "ok" => Len(d) = 0)
    BY <1>3, <1>7
  <2> HIDE DEF e
  <2>3. /\ v.flags = g.flags /\ v.pos = g.pos /\ v.size = g.size /\ v.head = g.head
        /\ v.list = g.list /\ v.buffer = g.buffer /\ v.branch = g.branch /\ v.err = e
        /\ v \in FileRecord
    BY <1>1, <2>1, <2>2 DEF FileRecord
  <2>4. CASE e = "ok"
    <3>1. v = g
      BY <1>1, <2>1, <2>4 DEF FileRecord, Ok
    <3>2. w = g
      BY <1>1, <1>5, <3>1 DEF ErredUnlessOk
    <3>3. WroteTo(g, d, 0, g)
      BY <1>1, <2>2, <2>4, NothingWritten DEF WroteTo
    <3> QED
      BY <1>1, <3>2, <3>3, AllOf DEF Wrote, Ok
  <2>5. CASE e = "nospc"
    <3>1. /\ w \in FileRecord /\ w.flags = g.flags \cup {"ERRED"} /\ w.err = "nospc"
          /\ w.pos = g.pos /\ w.size = g.size /\ w.head = g.head /\ w.list = g.list
          /\ w.buffer = g.buffer /\ w.branch = g.branch
      BY <1>5, <2>3, <2>5, ErredFields DEF Ok, MaybeErred
    <3> QED
      BY <3>1, FailedWrite
  <2> QED
    BY <2>2, <2>4, <2>5
<1> QED
  BY <1>6, <1>7

\* Something as long hides all of it.
LEMMA OverCovers == ASSUME NEW S, NEW b \in Seq(S), NEW c \in Seq(S), Len(c) <= Len(b)
  PROVE  Over(b, c) = b
<1> DEFINE o == Over(b, c)
<1>1. Len(b) \in Nat /\ Len(c) \in Nat
  OBVIOUS
<1>2. o \in Seq(S) /\ Len(o) = (IF Len(b) >= Len(c) THEN Len(b) ELSE Len(c))
      /\ \A i \in 1..Len(o) : o[i] = IF i <= Len(b) THEN b[i] ELSE c[i]
  BY OverProperties
<1> HIDE DEF o
<1>3. Len(o) = Len(b) /\ \A i \in 1..Len(o) : o[i] = b[i]
  BY <1>1, <1>2
<1>4. o = b
  BY <1>2, <1>3, SameSequence
<1> QED
  BY <1>4 DEF o

\* The file that lfs_file_outline makes of an inline one.
LEMMA OutlineFields ==
  ASSUME NEW g, Shape(g), Ok(g), Is(g, "INLINE"), g.pos <= lfs_file_rawsize(g), g.room # 0,
         NEW o, o = lfs_file_outline(g)
  PROVE  /\ o \in FileRecord
         /\ o.flags = (g.flags \cup {"WRITING"}) \ {"INLINE"}
         /\ o.pos = g.pos /\ o.size = g.size /\ o.head = "inline" /\ o.list = <<>>
         /\ o.buffer = <<>> /\ o.branch = SubSeq(g.buffer, 1, g.pos) /\ Len(o.branch) = g.pos
         /\ o.offset = g.pos /\ o.err = "ok"
<1> DEFINE fl == (g.flags \cup {"WRITING"}) \ {"INLINE"}
           b == SubSeq(g.buffer, 1, g.pos)
           r == g.room - 1
           z == <<>>
<1>1. g \in FileRecord /\ g.head = "inline" /\ g.list = <<>> /\ g.err = "ok"
      /\ Len(g.buffer) <= InlineUpTo
  BY DEF Shape, InlineShape, Ok
<1>2. /\ g.flags \subseteq Flags /\ g.pos \in Nat /\ g.room \in Nat /\ g.buffer \in Seq(Byte)
      /\ Len(g.buffer) \in Nat
  BY <1>1, FileRecordFields
<1>3. g.pos <= Len(g.buffer)
  BY <1>2, InlineContents
<1>4. fl \in SUBSET Flags
  BY <1>2 DEF Flags
<1>5. b \in Seq(Byte) /\ Len(b) = g.pos
  <2>1. g.pos \in 0..Len(g.buffer)
    BY <1>2, <1>3
  <2> QED
    BY <1>2, <2>1, FrontProperties
<1>6. r \in Nat /\ z \in Seq(Byte)
  BY <1>2
<1>7. g.pos \in 0..BlockSize
  BY <1>1, <1>2, <1>3, Constants
<1>8. o = [g EXCEPT !.flags = fl, !.room = r, !.branch = b, !.offset = g.pos, !.buffer = z]
  <2>1. o = [[[g EXCEPT !.flags = @ \cup {"WRITING"}] EXCEPT !.flags = @ \ {"INLINE"}] EXCEPT
               !.room = @ - 1, !.branch = b, !.offset = g.pos, !.buffer = z]
    BY Zenon DEF lfs_file_outline, Add, Drop
  <2> HIDE DEF b, z
  <2> QED
    BY <1>1, <2>1 DEF FileRecord
<1> HIDE DEF fl, b, r, z
<1>9. /\ o.flags = fl /\ o.pos = g.pos /\ o.size = g.size /\ o.head = g.head /\ o.list = g.list
      /\ o.buffer = z /\ o.branch = b /\ o.offset = g.pos /\ o.err = g.err /\ o \in FileRecord
  BY <1>1, <1>4, <1>5, <1>6, <1>7, <1>8 DEF FileRecord
<1> QED
  BY <1>1, <1>5, <1>9 DEF fl, b, z

\* A write that takes an inline file out of its directory.
LEMMA OutlinedWrite ==
  ASSUME NEW g, NEW d \in Seq(Byte), Ready(g, Len(d)), Is(g, "INLINE"), g.room # 0,
         ~StaysInline(g, Len(d))
  PROVE  Wrote(g, d, ErredUnlessOk(WriteList(lfs_file_outline(g), d)))
<1>1. Shape(g) /\ g \in FileRecord /\ Ok(g) /\ g.pos <= lfs_file_rawsize(g)
      /\ (Appending => g.size <= g.pos)
      /\ (g.size > OutlineAbove => g.size <= g.pos + Len(d))
  BY DEF Ready, Shape
<1>2. g.pos \in Nat /\ g.size \in Nat /\ g.buffer \in Seq(Byte) /\ Len(d) \in Nat
      /\ Len(g.buffer) \in Nat
  BY <1>1, FileRecordFields
<1>3. /\ ContentsOf(g) \in Seq(Byte)
      /\ Len(ContentsOf(g)) = lfs_file_rawsize(g)
      /\ lfs_file_rawsize(g) \in 0..Len(g.buffer)
      /\ \A i \in 1..lfs_file_rawsize(g) : ContentsOf(g)[i] = g.buffer[i]
  BY <1>1, InlineContents
<1>4. g.size <= Len(g.buffer) /\ Len(g.buffer) <= InlineUpTo
  BY <1>1 DEF Shape, InlineShape
<1>5. lfs_file_rawsize(g) = IF g.pos >= g.size THEN g.pos ELSE g.size
  <2>1. ~Is(g, "WRITING") => lfs_file_rawsize(g) = g.size
    BY <1>1, RawSize
  <2> QED
    BY <1>1, <1>2, <2>1, RawSize
<1> SUFFICES ASSUME NEW o, o = lfs_file_outline(g)
             PROVE  Wrote(g, d, ErredUnlessOk(WriteList(o, d)))
  OBVIOUS
<1>6. /\ o \in FileRecord
      /\ o.flags = (g.flags \cup {"WRITING"}) \ {"INLINE"}
      /\ o.pos = g.pos /\ o.size = g.size /\ o.head = "inline" /\ o.list = <<>>
      /\ o.buffer = <<>> /\ o.branch = SubSeq(g.buffer, 1, g.pos) /\ Len(o.branch) = g.pos
      /\ o.offset = g.pos /\ o.err = "ok"
  BY <1>1, OutlineFields
<1>7. Based(o) /\ Is(o, "WRITING") /\ Base(o) = o.branch /\ Left(o) = BlockSize - g.pos
  BY <1>6 DEF Based, Base, Is, Ok, Left
<1>8. PICK n \in 0..Len(d) : /\ WriteList(o, d) = WriteFirst(o, d, n)
                             /\ BlocksFor(o, n) <= o.room
                             /\ \A k \in 0..Len(d) : k <= Left(o) => k <= n
  BY <1>6, WriteListStopsWhere
<1>9. g.size <= g.pos + n /\ g.pos + n > 0
  <2>1. CASE Len(d) <= BlockSize - g.pos
    <3>1. n = Len(d)
      BY <1>2, <1>7, <1>8, <2>1
    <3>2. Max({g.pos + Len(d), g.size}) > OutlineAbove
      <4>1. Max({g.pos + Len(d), g.size}) = IF g.pos + Len(d) >= g.size THEN g.pos + Len(d) ELSE g.size
        BY <1>2, MaxOfTwo
      <4> QED
        BY <1>2, <4>1, Constants DEF StaysInline
    <3>3. Max({g.pos + Len(d), g.size}) = IF g.pos + Len(d) >= g.size THEN g.pos + Len(d) ELSE g.size
      BY <1>2, MaxOfTwo
    <3> QED
      BY <1>1, <1>2, <3>1, <3>2, <3>3, Constants
  <2>2. CASE BlockSize - g.pos < Len(d)
    <3>1. BlockSize - g.pos \in 0..Len(d)
      BY <1>1, <1>2, <1>3, <1>4, <2>2, Constants
    <3>2. BlockSize - g.pos <= n
      BY <1>7, <1>8, <3>1
    <3> QED
      BY <1>2, <1>4, <3>2, Constants
  <2> QED
    BY <1>2, <2>1, <2>2, Constants
<1>10. SUFFICES ASSUME NEW v, NEW w, v = WriteFirst(o, d, n), w = ErredUnlessOk(v)
                PROVE  Wrote(g, d, w)
  BY <1>8
<1>11. ListGrown(o, d, n, v)
  <2>1. BlocksFor(o, n) <= o.room
    BY <1>8
  <2> QED
    BY <1>7, <1>10, <2>1, WriteFirstFields
<1>12. /\ v \in FileRecord
       /\ v.flags = o.flags \cup {"WRITING"} /\ v.pos = g.pos + n /\ v.size = g.size
       /\ v.head = "inline" /\ v.list = <<>> /\ v.buffer = <<>>
       /\ v.branch = o.branch \o SubSeq(d, 1, n)
       /\ v.branch \in Seq(Byte) /\ Len(v.branch) = g.pos + n
       /\ v.err = IF n < Len(d) THEN "nospc" ELSE "ok"
  BY <1>6, <1>7, <1>11 DEF ListGrown
<1>13. /\ w \in FileRecord
       /\ w.flags = v.flags \cup (IF Ok(v) THEN {} ELSE {"ERRED"})
       /\ w.pos = v.pos /\ w.size = v.size /\ w.head = v.head /\ w.list = v.list
       /\ w.branch = v.branch /\ w.buffer = v.buffer /\ w.err = v.err
  <2>1. v \in FileRecord
    BY <1>12
  <2>2. w = ErredUnlessOk(v)
    BY <1>10
  <2> QED
    BY <2>1, <2>2, ErredFields DEF MaybeErred
<1>14. /\ ~Is(w, "INLINE") /\ Is(w, "WRITING")
       /\ Is(w, "DIRTY") <=> Is(g, "DIRTY")
       /\ Is(w, "ERRED") <=> Is(g, "ERRED") \/ ~Ok(w)
  BY <1>6, <1>12, <1>13 DEF Is, Ok
<1>15. ListShape(w)
  <2>1. Len(w.buffer) <= InlineUpTo
    <3>1. Len(<<>>) = 0
      OBVIOUS
    <3> QED
      BY <1>12, <1>13, <3>1, Constants
  <2> QED
    BY <1>9, <1>12, <1>13, <1>14, <2>1 DEF ListShape
<1>16. Shape(w)
  BY <1>9, <1>12, <1>13, <1>14, <1>15 DEF Shape
<1>17. ContentsOf(w) = w.branch
  <2>1. ContentsOf(w) = Over(w.branch, <<>>)
    <3>1. ContentsOf(w) = Over(w.branch, w.list)
      BY <1>14, <1>16, BranchContents
    <3>2. w.list = <<>>
      BY <1>12, <1>13
    <3> QED
      BY <3>1, <3>2
  <2>2. w.branch \in Seq(Byte)
    BY <1>12, <1>13
  <2> QED
    BY <2>1, <2>2, OverEmpty
<1>18. Put(ContentsOf(g), g.pos, SubSeq(d, 1, n)) = w.branch
  <2> DEFINE e == SubSeq(d, 1, n)
             c == ContentsOf(g)
  <2>1. e \in Seq(Byte) /\ Len(e) = n /\ c \in Seq(Byte) /\ g.pos \in 0..Len(c)
    BY <1>1, <1>2, <1>3, FrontProperties
  <2> HIDE DEF e
  <2>2. SubSeq(c, 1, g.pos) = SubSeq(g.buffer, 1, g.pos)
    <3>1. SubSeq(c, 1, g.pos) \in Seq(Byte) /\ Len(SubSeq(c, 1, g.pos)) = g.pos
          /\ \A i \in 1..g.pos : SubSeq(c, 1, g.pos)[i] = c[i]
      BY <2>1, FrontProperties
    <3>2. SubSeq(g.buffer, 1, g.pos) \in Seq(Byte) /\ Len(SubSeq(g.buffer, 1, g.pos)) = g.pos
          /\ \A i \in 1..g.pos : SubSeq(g.buffer, 1, g.pos)[i] = g.buffer[i]
      <4>1. g.pos \in 0..Len(g.buffer)
        BY <1>1, <1>2, <1>3
      <4> QED
        BY <1>2, <4>1, FrontProperties
    <3>3. \A i \in 1..g.pos : c[i] = g.buffer[i]
      BY <1>1, <1>2, <1>3
    <3> QED
      BY <3>1, <3>2, <3>3, SameSequence
  <2>3. Put(c, g.pos, e) = Over(SubSeq(c, 1, g.pos) \o e, c)
        /\ SubSeq(c, 1, g.pos) \o e \in Seq(Byte) /\ Len(SubSeq(c, 1, g.pos) \o e) = g.pos + n
    BY <2>1, PutIsOver
  <2>4. Len(c) <= g.pos + n
    BY <1>2, <1>3, <1>5, <1>9
  <2>5. Over(SubSeq(c, 1, g.pos) \o e, c) = SubSeq(c, 1, g.pos) \o e
    BY <2>1, <2>3, <2>4, OverCovers
  <2>6. w.branch = SubSeq(g.buffer, 1, g.pos) \o e
    BY <1>6, <1>12, <1>13 DEF e
  <2> QED
    BY <2>2, <2>3, <2>5, <2>6 DEF e
<1>19. Ok(w) => n = Len(d)
  BY <1>2, <1>12, <1>13 DEF Ok
<1>20. WroteTo(g, d, n, w)
  BY <1>12, <1>13, <1>17, <1>18, <1>19 DEF WroteTo
<1> QED
  BY <1>12, <1>13, <1>14, <1>16, <1>20 DEF Wrote

\* Inline or not, and wherever the blocks run out.
LEMMA FlushedWrite ==
  ASSUME NEW g, NEW d \in Seq(Byte), Ready(g, Len(d))
  PROVE  Wrote(g, d, lfs_file_flushedwrite(g, d))
<1>1. Ok(g) /\ Shape(g) /\ g \in FileRecord
  BY DEF Ready, Shape
<1>2. CASE ~Is(g, "INLINE")
  <2>1. lfs_file_flushedwrite(g, d) = ErredUnlessOk(WriteList(g, d))
    BY <1>1, <1>2, Zenon DEF lfs_file_flushedwrite, Written, Outlined
  <2> QED
    BY <1>2, <2>1, ListWrite
<1>3. CASE Is(g, "INLINE") /\ StaysInline(g, Len(d))
  <2>1. lfs_file_flushedwrite(g, d) = ErredUnlessOk(WriteInline(g, d))
    BY <1>1, <1>3, Zenon DEF lfs_file_flushedwrite, Written, Outlined
  <2>2. Wrote(g, d, WriteInline(g, d)) /\ Ok(WriteInline(g, d))
    BY <1>3, InlineWrite
  <2>3. ErredUnlessOk(WriteInline(g, d)) = WriteInline(g, d)
    BY <2>2 DEF ErredUnlessOk
  <2> QED
    BY <2>1, <2>2, <2>3
<1>4. CASE Is(g, "INLINE") /\ ~StaysInline(g, Len(d)) /\ g.room # 0
  <2> DEFINE o == lfs_file_outline(g)
  <2>1. Ok(o) /\ ~Is(o, "INLINE")
    <3>1. o.err = "ok" /\ o.flags = (g.flags \cup {"WRITING"}) \ {"INLINE"}
      BY <1>1, <1>4, OutlineFields DEF Ready
    <3> HIDE DEF o
    <3> QED
      BY <3>1 DEF Ok, Is
  <2>2. Outlined(g, Len(d)) = o
    BY <1>4 DEF Outlined
  <2> HIDE DEF o
  <2>3. lfs_file_flushedwrite(g, d) = ErredUnlessOk(WriteList(o, d))
    BY <2>1, <2>2, Zenon DEF lfs_file_flushedwrite, Written
  <2> QED
    BY <1>4, <2>3, OutlinedWrite DEF o
<1>5. CASE Is(g, "INLINE") /\ ~StaysInline(g, Len(d)) /\ g.room = 0
  <2> SUFFICES ASSUME NEW v, NEW w, v = [g EXCEPT !.err = "nospc"], w = ErredUnlessOk(v)
               PROVE  Wrote(g, d, w)
    <3>1. Outlined(g, Len(d)) = [g EXCEPT !.err = "nospc"]
      BY <1>5 DEF Outlined, lfs_file_outline
    <3>2. ~Ok([g EXCEPT !.err = "nospc"])
      BY <1>1 DEF FileRecord, Ok
    <3>3. lfs_file_flushedwrite(g, d) = ErredUnlessOk([g EXCEPT !.err = "nospc"])
      BY <3>1, <3>2, Zenon DEF lfs_file_flushedwrite, Written
    <3> QED
      BY <3>3
  <2>1. /\ v.flags = g.flags /\ v.pos = g.pos /\ v.size = g.size /\ v.head = g.head
        /\ v.list = g.list /\ v.buffer = g.buffer /\ v.branch = g.branch /\ v.err = "nospc"
        /\ v \in FileRecord
    BY <1>1 DEF FileRecord
  <2>2. /\ w \in FileRecord /\ w.flags = g.flags \cup {"ERRED"} /\ w.err = "nospc"
        /\ w.pos = g.pos /\ w.size = g.size /\ w.head = g.head /\ w.list = g.list
        /\ w.buffer = g.buffer /\ w.branch = g.branch
    <3>1. v \in FileRecord /\ ~Ok(v)
      BY <2>1 DEF Ok
    <3>2. /\ w \in FileRecord
          /\ w.flags = v.flags \cup (IF Ok(v) THEN {} ELSE {"ERRED"})
          /\ w.pos = v.pos /\ w.size = v.size /\ w.head = v.head /\ w.list = v.list
          /\ w.buffer = v.buffer /\ w.branch = v.branch /\ w.err = v.err
      BY <3>1, ErredFields DEF MaybeErred
    <3> QED
      BY <2>1, <3>1, <3>2
  <2> QED
    BY <2>2, FailedWrite
<1> QED
  BY <1>2, <1>3, <1>4, <1>5

-----------------------------------------------------------------------------
(* One write after another *)

\* The front of two sequences, one behind the other.
LEMMA ConcatFront ==
  ASSUME NEW S, NEW d \in Seq(S), NEW e \in Seq(S), NEW k \in 0..Len(d)
  PROVE  SubSeq(d \o e, 1, k) = SubSeq(d, 1, k) /\ k \in 0..Len(d \o e)
<1> DEFINE g == d \o e
<1>1. Len(d) \in Nat /\ Len(e) \in Nat /\ k \in Nat /\ k <= Len(d)
  OBVIOUS
<1>2. g \in Seq(S) /\ Len(g) = Len(d) + Len(e)
      /\ \A i \in 1..(Len(d) + Len(e)) : g[i] = IF i <= Len(d) THEN d[i] ELSE e[i - Len(d)]
  BY ConcatProperties
<1> HIDE DEF g
<1>3. k \in 0..Len(g)
  BY <1>1, <1>2
<1>4. SubSeq(g, 1, k) \in Seq(S) /\ Len(SubSeq(g, 1, k)) = k
      /\ \A i \in 1..k : SubSeq(g, 1, k)[i] = g[i]
  BY <1>2, <1>3, FrontProperties
<1>5. SubSeq(d, 1, k) \in Seq(S) /\ Len(SubSeq(d, 1, k)) = k
      /\ \A i \in 1..k : SubSeq(d, 1, k)[i] = d[i]
  BY FrontProperties
<1>6. \A i \in 1..k : g[i] = d[i]
  BY <1>1, <1>2
<1>7. SubSeq(g, 1, k) = SubSeq(d, 1, k)
  BY <1>4, <1>5, <1>6, SameSequence
<1> QED
  BY <1>3, <1>7 DEF g

\* The first elements of the second one end a front of both.
LEMMA ConcatBehind ==
  ASSUME NEW S, NEW d \in Seq(S), NEW e \in Seq(S), NEW j \in 0..Len(e)
  PROVE  /\ SubSeq(d \o e, 1, Len(d) + j) = d \o SubSeq(e, 1, j)
         /\ Len(d) + j \in 0..Len(d \o e)
         /\ Len(d \o e) = Len(d) + Len(e)
<1> DEFINE g == d \o e
           h == SubSeq(e, 1, j)
           l == SubSeq(g, 1, Len(d) + j)
           r == d \o h
<1>1. Len(d) \in Nat /\ Len(e) \in Nat /\ j \in Nat /\ j <= Len(e)
  OBVIOUS
<1>2. g \in Seq(S) /\ Len(g) = Len(d) + Len(e)
      /\ \A i \in 1..(Len(d) + Len(e)) : g[i] = IF i <= Len(d) THEN d[i] ELSE e[i - Len(d)]
  BY ConcatProperties
<1> HIDE DEF g
<1>3. Len(d) + j \in 0..Len(g)
  BY <1>1, <1>2
<1>4. l \in Seq(S) /\ Len(l) = Len(d) + j /\ \A i \in 1..(Len(d) + j) : l[i] = g[i]
  BY <1>2, <1>3, FrontProperties
<1> HIDE DEF l
<1>5. h \in Seq(S) /\ Len(h) = j /\ \A i \in 1..j : h[i] = e[i]
  BY FrontProperties
<1> HIDE DEF h
<1>6. r \in Seq(S) /\ Len(r) = Len(d) + j
      /\ \A i \in 1..(Len(d) + j) : r[i] = IF i <= Len(d) THEN d[i] ELSE h[i - Len(d)]
  BY <1>5, ConcatProperties
<1> HIDE DEF r
<1>7. ASSUME NEW i \in 1..(Len(d) + j) PROVE l[i] = r[i]
  <2>1. i \in 1..(Len(d) + Len(e))
    BY <1>1
  <2>2. l[i] = IF i <= Len(d) THEN d[i] ELSE e[i - Len(d)]
    BY <1>2, <1>4, <2>1
  <2>3. Len(d) < i => i - Len(d) \in 1..j
    BY <1>1
  <2>4. Len(d) < i => h[i - Len(d)] = e[i - Len(d)]
    BY <1>5, <2>3
  <2>5. i <= Len(d) \/ Len(d) < i
    BY <1>1
  <2>6. r[i] = IF i <= Len(d) THEN d[i] ELSE h[i - Len(d)]
    BY <1>6
  <2> QED
    BY <2>2, <2>4, <2>5, <2>6
<1>8. l = r
  BY <1>4, <1>6, <1>7, SameSequence
<1> QED
  BY <1>2, <1>3, <1>8 DEF l, r, g, h

\* Where a write leaves the position.
LEMMA AfterWrite ==
  ASSUME NEW g, Shape(g), g.pos <= lfs_file_rawsize(g), NEW d \in Seq(Byte), NEW w, Wrote(g, d, w)
  PROVE  /\ w.pos \in g.pos..(g.pos + Len(d)) /\ w.pos <= lfs_file_rawsize(w)
         /\ Ok(w) => w.pos = g.pos + Len(d)
         /\ g.pos \in 0..Len(ContentsOf(g)) /\ w.pos \in Nat
<1>1. PICK k \in 0..Len(d) : WroteTo(g, d, k, w)
  BY DEF Wrote
<1>2. g.pos \in Nat /\ Len(d) \in Nat
  BY FileRecordFields DEF Shape
<1>3. ContentsOf(g) \in Seq(Byte) /\ g.pos \in 0..Len(ContentsOf(g))
  BY <1>2, ContentsProperties
<1>4. w.pos = g.pos + k /\ (Ok(w) => k = Len(d))
      /\ ContentsOf(w) = Put(ContentsOf(g), g.pos, SubSeq(d, 1, k))
  BY <1>1 DEF WroteTo
<1>5. SubSeq(d, 1, k) \in Seq(Byte) /\ Len(SubSeq(d, 1, k)) = k
  BY FrontProperties
<1>6. Len(Put(ContentsOf(g), g.pos, SubSeq(d, 1, k)))
        = IF g.pos + k >= Len(ContentsOf(g)) THEN g.pos + k ELSE Len(ContentsOf(g))
  <2> DEFINE c == ContentsOf(g)
             e == SubSeq(d, 1, k)
  <2>1. c \in Seq(Byte) /\ g.pos \in 0..Len(c) /\ e \in Seq(Byte) /\ Len(e) = k
    BY <1>3, <1>5
  <2> HIDE DEF c, e
  <2>2. Len(Put(c, g.pos, e)) = IF g.pos + Len(e) >= Len(c) THEN g.pos + Len(e) ELSE Len(c)
    BY <2>1, PutProperties
  <2> QED
    BY <2>1, <2>2 DEF c, e
<1>7. Len(ContentsOf(w)) = lfs_file_rawsize(w)
  BY ContentsProperties DEF Wrote
<1>8. lfs_file_rawsize(w) = IF g.pos + k >= Len(ContentsOf(g)) THEN g.pos + k ELSE Len(ContentsOf(g))
  BY <1>4, <1>6, <1>7
<1> QED
  BY <1>2, <1>3, <1>4, <1>8

\* A write and, if it succeeds, another one behind it are one write.
LEMMA WroteThen ==
  ASSUME NEW g, Shape(g), g.pos <= lfs_file_rawsize(g),
         NEW d \in Seq(Byte), NEW e \in Seq(Byte),
         NEW w, Wrote(g, d, w), NEW x, IF Ok(w) THEN Wrote(w, e, x) ELSE x = w
  PROVE  Wrote(g, d \o e, x)
<1>1. PICK k \in 0..Len(d) : WroteTo(g, d, k, w)
  BY DEF Wrote
<1>2. g.pos \in 0..Len(ContentsOf(g)) /\ ContentsOf(g) \in Seq(Byte)
  BY AfterWrite, ContentsProperties
<1>3. CASE ~Ok(w)
  <2>1. SubSeq(d \o e, 1, k) = SubSeq(d, 1, k) /\ k \in 0..Len(d \o e)
    BY ConcatFront
  <2>2. WroteTo(g, d \o e, k, w)
    BY <1>1, <1>3, <2>1 DEF WroteTo
  <2>3. x = w
    BY <1>3
  <2> QED
    BY <2>1, <2>2, <2>3 DEF Wrote
<1>4. CASE Ok(w)
  <2>1. Wrote(w, e, x)
    BY <1>4
  <2>2. PICK j \in 0..Len(e) : WroteTo(w, e, j, x)
    BY <2>1 DEF Wrote
  <2>3. k = Len(d) /\ w.pos = g.pos + Len(d) /\ ContentsOf(w) = Put(ContentsOf(g), g.pos, d)
    BY <1>1, <1>4, AllOf DEF WroteTo
  <2>4. /\ SubSeq(d \o e, 1, Len(d) + j) = d \o SubSeq(e, 1, j)
        /\ Len(d) + j \in 0..Len(d \o e)
        /\ Len(d \o e) = Len(d) + Len(e)
    BY ConcatBehind
  <2>5. ContentsOf(x) = Put(ContentsOf(w), w.pos, SubSeq(e, 1, j)) /\ x.pos = w.pos + j
        /\ (Ok(x) => j = Len(e))
    BY <2>2 DEF WroteTo
  <2>6. SubSeq(e, 1, j) \in Seq(Byte)
    BY FrontProperties
  <2>7. Put(Put(ContentsOf(g), g.pos, d), g.pos + Len(d), SubSeq(e, 1, j))
          = Put(ContentsOf(g), g.pos, d \o SubSeq(e, 1, j))
    <3> DEFINE c == ContentsOf(g)
               h == SubSeq(e, 1, j)
    <3>1. c \in Seq(Byte) /\ g.pos \in 0..Len(c) /\ h \in Seq(Byte)
      BY <1>2, <2>6
    <3> HIDE DEF c, h
    <3>2. Put(Put(c, g.pos, d), g.pos + Len(d), h) = Put(c, g.pos, d \o h)
      BY <3>1, PutBehind
    <3> QED
      BY <3>2 DEF c, h
  <2>8. ContentsOf(x) = Put(ContentsOf(g), g.pos, SubSeq(d \o e, 1, Len(d) + j))
    BY <2>3, <2>4, <2>5, <2>7
  <2>9. x.pos = g.pos + (Len(d) + j)
    <3>1. g.pos \in Nat /\ Len(d) \in Nat /\ j \in Nat
      BY FileRecordFields DEF Shape
    <3>2. w.pos = g.pos + Len(d) /\ x.pos = w.pos + j
      BY <2>3, <2>5
    <3>3. x.pos = (g.pos + Len(d)) + j
      BY <3>2
    <3> QED
      BY <3>1, <3>3
  <2>10. WroteTo(g, d \o e, Len(d) + j, x)
    BY <2>4, <2>5, <2>8, <2>9 DEF WroteTo
  <2> QED
    BY <1>4, <2>1, <2>4, <2>10 DEF Wrote
<1> QED
  BY <1>3, <1>4

\* A file whose position is at its end or behind it, inside what is written.
AtEnd(g) == Shape(g) /\ Ok(g) /\ g.size <= g.pos /\ g.pos <= lfs_file_rawsize(g)

\* At its end a file is ready for any write.
LEMMA AtEndReady == ASSUME NEW g, AtEnd(g), NEW n \in Nat
  PROVE  Ready(g, n) /\ g.pos \in Nat
<1>1. g.pos \in Nat /\ g.size \in Nat
  BY FileRecordFields DEF AtEnd, Shape
<1> QED
  BY <1>1 DEF AtEnd, Ready

\* A write at the end leaves the position there.
LEMMA StaysAtEnd == ASSUME NEW g, AtEnd(g), NEW d \in Seq(Byte), NEW w, Wrote(g, d, w), Ok(w)
  PROVE  AtEnd(w) /\ w.pos = g.pos + Len(d)
<1>1. /\ w.pos \in g.pos..(g.pos + Len(d)) /\ w.pos <= lfs_file_rawsize(w)
      /\ w.pos = g.pos + Len(d)
  BY AfterWrite DEF AtEnd
<1>2. g.pos \in Nat /\ g.size \in Nat /\ w.size = g.size /\ Shape(w)
  BY FileRecordFields DEF AtEnd, Shape, Wrote
<1> QED
  BY <1>1, <1>2 DEF AtEnd

\* Filling up to a position writes zeros at the end.
LEMMA ZerosUpToWrites == ASSUME NEW g, AtEnd(g), NEW n \in Nat, g.pos <= n
  PROVE  Wrote(g, Zeros(n - g.pos), ZerosUpTo(g, n))
<1>1. g.pos \in Nat /\ n - g.pos \in Nat
  BY AtEndReady
<1> DEFINE d == Zeros(n - g.pos)
<1>2. d \in Seq(Byte) /\ Len(d) = n - g.pos
  BY <1>1, ZerosProperties
<1>3. ZerosUpTo(g, n) = lfs_file_flushedwrite(g, d)
  BY DEF ZerosUpTo, WriteIfOk, AtEnd
<1> HIDE DEF d
<1>4. Ready(g, Len(d))
  BY <1>1, <1>2, AtEndReady
<1>5. Wrote(g, d, lfs_file_flushedwrite(g, d))
  BY <1>2, <1>4, FlushedWrite
<1> QED
  BY <1>3, <1>5 DEF d

\* lfs_file_rawwrite and lfs_file_rawtruncate extend a file with zeros.
LEMMA FillZerosWrites == ASSUME NEW g, AtEnd(g), NEW n \in Nat, g.pos <= n
  PROVE  Wrote(g, Zeros(n - g.pos), FillZeros(g, n))
<1>1. g.pos \in Nat
  BY AtEndReady
<1>2. CASE ~Is(g, "INLINE")
  BY <1>2, ZerosUpToWrites DEF FillZeros
<1>3. CASE Is(g, "INLINE")
  <2> DEFINE m == Max({g.pos, Min({n, OutlineAbove})})
             d == Zeros(m - g.pos)
             e == Zeros(n - m)
             w == ZerosUpTo(g, m)
             x == ZerosUpTo(w, n)
  <2>1. m \in Nat /\ g.pos <= m /\ m <= n
    <3>1. Min({n, OutlineAbove}) = IF n <= OutlineAbove THEN n ELSE OutlineAbove
      BY Constants, MinOfTwo
    <3>2. Min({n, OutlineAbove}) \in Nat /\ Min({n, OutlineAbove}) <= n
      BY <3>1, Constants
    <3>3. m = IF g.pos >= Min({n, OutlineAbove}) THEN g.pos ELSE Min({n, OutlineAbove})
      BY <1>1, <3>2, MaxOfTwo
    <3> QED
      BY <1>1, <3>2, <3>3
  <2>2. FillZeros(g, n) = x
    BY <1>3 DEF FillZeros
  <2> HIDE DEF m
  <2>3. m - g.pos \in Nat /\ n - m \in Nat /\ (m - g.pos) + (n - m) = n - g.pos
    BY <1>1, <2>1
  <2>4. d \in Seq(Byte) /\ e \in Seq(Byte) /\ Len(d) = m - g.pos
    BY <2>3, ZerosProperties
  <2>5. d \o e = Zeros(n - g.pos)
    BY <2>3, ZerosConcat
  <2>6. Wrote(g, d, w)
    BY <2>1, ZerosUpToWrites
  <2> HIDE DEF d, w
  <2>7. IF Ok(w) THEN Wrote(w, e, x) ELSE x = w
    <3>1. Ok(w) => Wrote(w, e, x)
      <4>1. SUFFICES ASSUME Ok(w) PROVE Wrote(w, e, x)
        OBVIOUS
      <4>2. AtEnd(w) /\ w.pos = g.pos + Len(d)
        BY <2>4, <2>6, <4>1, StaysAtEnd
      <4>3. w.pos = m
        BY <1>1, <2>1, <2>4, <4>2
      <4>4. Wrote(w, Zeros(n - w.pos), x)
        BY <2>1, <4>2, <4>3, ZerosUpToWrites
      <4> QED
        BY <4>3, <4>4
    <3>2. ~Ok(w) => x = w
      BY DEF ZerosUpTo, WriteIfOk
    <3> QED
      BY <3>1, <3>2
  <2> HIDE DEF e, x
  <2>8. Wrote(g, d \o e, x)
    BY <2>4, <2>6, <2>7, WroteThen DEF AtEnd
  <2> QED
    BY <2>2, <2>5, <2>8
<1> QED
  BY <1>2, <1>3

-----------------------------------------------------------------------------
(* lfs_file_flush *)

\* The bytes stay, and what was being written is the file's structure now, or
\* blocks have run out.
Flushed(g, w) ==
  /\ Shape(w) /\ ContentsOf(w) = ContentsOf(g)
  /\ Is(w, "INLINE") => Is(g, "INLINE")
  /\ Ok(w) => /\ ~Is(w, "WRITING") /\ w.pos = g.pos /\ w.size = lfs_file_rawsize(g)
              /\ Is(w, "ERRED") <=> Is(g, "ERRED")
              /\ Is(w, "INLINE") <=> Is(g, "INLINE")
  /\ ~Ok(w) => Is(w, "ERRED") /\ w.err = "nospc" /\ w.pos <= lfs_file_rawsize(g)
  /\ Is(g, "DIRTY") \/ Is(g, "WRITING") => Is(w, "DIRTY") \/ Is(w, "WRITING")
  /\ ~Is(g, "WRITING") => w = g

\* An inline flush counts the bytes, and cannot fail.
LEMMA FlushInline == ASSUME NEW g, Shape(g), Ok(g), Is(g, "WRITING"), Is(g, "INLINE")
  PROVE  Flushed(g, lfs_file_flush(g)) /\ Ok(lfs_file_flush(g))
<1> SUFFICES ASSUME NEW w, w = lfs_file_flush(g)
             PROVE  Flushed(g, w) /\ Ok(w)
  OBVIOUS
<1> DEFINE fl == (g.flags \cup {"DIRTY"}) \ {"WRITING"}
           n == Max({g.pos, g.size})
<1>1. g \in FileRecord /\ InlineShape(g)
  BY DEF Shape
<1>2. g.pos \in Nat /\ g.size \in Nat /\ g.flags \subseteq Flags
  BY <1>1, FileRecordFields
<1>3. n = (IF g.pos >= g.size THEN g.pos ELSE g.size) /\ lfs_file_rawsize(g) = n
  BY <1>1, <1>2, MaxOfTwo, RawSize
<1>4. w = [[[g EXCEPT !.flags = @ \cup {"DIRTY"}] EXCEPT !.flags = @ \ {"WRITING"}] EXCEPT !.size = n]
  BY Zenon DEF lfs_file_flush, Add, Drop
<1> HIDE DEF n
<1>5. n \in Nat
  BY <1>2, <1>3
<1>6. w = [g EXCEPT !.flags = fl, !.size = n]
  BY <1>1, <1>4 DEF FileRecord
<1>7. fl \in SUBSET Flags
  BY <1>2 DEF Flags
<1> HIDE DEF fl
<1>8. /\ w.flags = fl /\ w.pos = g.pos /\ w.size = n /\ w.head = g.head /\ w.list = g.list
      /\ w.buffer = g.buffer /\ w.branch = g.branch /\ w.err = g.err /\ w \in FileRecord
  BY <1>1, <1>5, <1>6, <1>7 DEF FileRecord
<1>9. /\ Is(w, "INLINE") /\ ~Is(w, "WRITING") /\ Is(w, "DIRTY") /\ Ok(w)
      /\ Is(w, "ERRED") <=> Is(g, "ERRED")
  BY <1>8 DEF Is, fl, Ok
<1>10. InlineShape(w)
  BY <1>1, <1>2, <1>3, <1>8, <1>9 DEF InlineShape
<1>11. Shape(w)
  BY <1>8, <1>9, <1>10 DEF Shape
<1>12. lfs_file_rawsize(w) = n
  BY <1>8, <1>9 DEF lfs_file_rawsize
<1>13. ContentsOf(w) = ContentsOf(g)
  BY <1>3, <1>8, <1>9, <1>12 DEF ContentsOf
<1> QED
  BY <1>3, <1>8, <1>9, <1>11, <1>13 DEF Flushed

\* The bytes behind the position are behind it in the new branch as well.
Copying(g, t) ==
  /\ Shape(t) /\ ContentsOf(t) = ContentsOf(g) /\ t.size = g.size
  /\ ~Is(t, "INLINE") /\ Is(t, "WRITING")
  /\ Is(t, "DIRTY") <=> Is(g, "DIRTY")
  /\ Is(t, "ERRED") <=> Is(g, "ERRED") \/ ~Ok(t)
  /\ t.pos <= lfs_file_rawsize(g)
  /\ Ok(t) => t.pos = lfs_file_rawsize(g)

\* The flush of a list writes what it has behind the position to the branch.
LEMMA TailCopiedCopies == ASSUME NEW g, Shape(g), Ok(g), Is(g, "WRITING"), ~Is(g, "INLINE")
  PROVE  Copying(g, TailCopied(g))
<1>1. g \in FileRecord /\ ListShape(g) /\ Len(g.branch) = g.pos
  BY DEF Shape, ListShape
<1>2. g.pos \in Nat /\ g.size \in Nat /\ g.list \in Seq(Byte) /\ Len(g.list) \in Nat
      /\ g.branch \in Seq(Byte)
  BY <1>1, FileRecordFields
<1>3. lfs_file_rawsize(g) = IF g.pos >= g.size THEN g.pos ELSE g.size
  BY <1>1, RawSize
<1>4. CASE g.pos >= g.size
  <2>1. TailCopied(g) = g
    BY <1>4 DEF TailCopied
  <2>2. lfs_file_rawsize(g) = g.pos
    BY <1>2, <1>3, <1>4
  <2>3. g.pos <= g.pos
    BY <1>2
  <2> QED
    BY <2>1, <2>2, <2>3 DEF Copying
<1>5. CASE g.pos < g.size
  <2> DEFINE d == SubSeq(g.list, g.pos + 1, Len(g.list))
             t == lfs_file_flushedwrite(g, d)
             c == ContentsOf(g)
  <2>1. g.head = "list" /\ Len(g.list) = g.size
    <3>1. g.head # "inline"
      BY <1>1, <1>2, <1>5 DEF ListShape
    <3> QED
      BY <1>1, <3>1, FileRecordFields DEF ListShape
  <2>2. TailCopied(g) = t
    <3>1. Min({g.size, Len(g.list)}) = Len(g.list)
      BY <1>2, <2>1, MinOfTwo
    <3>2. ~(g.pos >= g.size) /\ g.head # "inline"
      BY <1>2, <1>5, <2>1
    <3> QED
      BY <3>1, <3>2, Zenon DEF TailCopied, Slice
  <2>3. d \in Seq(Byte) /\ Len(d) = g.size - g.pos
        /\ \A i \in 1..(g.size - g.pos) : d[i] = g.list[g.pos + i]
    <3>1. d \in Seq(Byte) /\ Len(d) = (IF g.pos <= Len(g.list) THEN Len(g.list) - g.pos ELSE 0)
          /\ \A i \in 1..(Len(g.list) - g.pos) : d[i] = g.list[g.pos + i]
      BY <1>2, BehindProperties
    <3> HIDE DEF d
    <3> QED
      BY <1>2, <1>5, <2>1, <3>1
  <2> HIDE DEF d
  <2>4. Ready(g, Len(d))
    <3>1. ~Appending
      BY <1>2, <1>5 DEF Shape
    <3> QED
      BY <1>2, <1>3, <3>1 DEF Ready
  <2>5. Wrote(g, d, t)
    BY <2>3, <2>4, FlushedWrite
  <2> HIDE DEF t
  <2>6. PICK k \in 0..Len(d) : WroteTo(g, d, k, t)
    BY <2>5 DEF Wrote
  <2>7. c \in Seq(Byte) /\ Len(c) = g.size
        /\ \A i \in 1..Len(c) : c[i] = IF i <= g.pos THEN g.branch[i] ELSE g.list[i]
    <3>1. c = Over(g.branch, g.list)
      BY BranchContents
    <3>2. /\ Over(g.branch, g.list) \in Seq(Byte)
          /\ Len(Over(g.branch, g.list))
               = IF Len(g.branch) >= Len(g.list) THEN Len(g.branch) ELSE Len(g.list)
          /\ \A i \in 1..Len(Over(g.branch, g.list)) :
               Over(g.branch, g.list)[i] = IF i <= Len(g.branch) THEN g.branch[i] ELSE g.list[i]
      BY <1>2, OverProperties
    <3> HIDE DEF c
    <3>3. Len(c) = IF g.pos >= g.size THEN g.pos ELSE g.size
      BY <1>1, <2>1, <3>1, <3>2
    <3>4. Len(c) = g.size
      BY <1>2, <1>5, <3>3
    <3> QED
      BY <1>1, <3>1, <3>2, <3>4
  <2> HIDE DEF c
  <2>8. Put(c, g.pos, SubSeq(d, 1, k)) = c
    <3> DEFINE e == SubSeq(d, 1, k)
    <3>1. e \in Seq(Byte) /\ Len(e) = k /\ \A i \in 1..k : e[i] = d[i]
      BY <2>3, FrontProperties
    <3> HIDE DEF e
    <3>2. g.pos \in 0..Len(c) /\ g.pos + Len(e) <= Len(c)
      BY <1>2, <1>5, <2>3, <2>7, <3>1
    <3>3. ASSUME NEW i \in 1..Len(e) PROVE e[i] = c[g.pos + i]
      <4>1. i \in 1..(g.size - g.pos) /\ i \in 1..k /\ i \in Nat /\ i > 0
        BY <1>2, <2>3, <3>1
      <4>2. g.pos + i \in 1..Len(c) /\ ~(g.pos + i <= g.pos)
        BY <1>2, <2>7, <4>1
      <4>3. c[g.pos + i] = g.list[g.pos + i]
        BY <2>7, <4>2
      <4> QED
        BY <2>3, <3>1, <4>1, <4>3
    <3>4. Put(c, g.pos, e) = c
      BY <2>7, <3>1, <3>2, <3>3, PutBack
    <3> QED
      BY <3>4 DEF e
  <2>9. ContentsOf(t) = ContentsOf(g)
    BY <2>6, <2>8 DEF WroteTo, c
  <2>10. t.pos = g.pos + k /\ (Ok(t) => k = Len(d))
    BY <2>6 DEF WroteTo
  <2>11. t.pos <= g.size /\ (Ok(t) => t.pos = g.size)
    BY <1>2, <2>3, <2>10
  <2>12. lfs_file_rawsize(g) = g.size
    BY <1>2, <1>3, <1>5
  <2> QED
    BY <2>2, <2>5, <2>9, <2>11, <2>12 DEF Copying, Wrote
<1> QED
  BY <1>2, <1>4, <1>5

\* The flush of a list keeps the bytes, also when it runs out of space.
LEMMA FlushList == ASSUME NEW g, Shape(g), Ok(g), Is(g, "WRITING"), ~Is(g, "INLINE")
  PROVE  Flushed(g, lfs_file_flush(g))
<1> SUFFICES ASSUME NEW t, t = TailCopied(g), NEW w, w = ListSwapped(t, g.pos)
             PROVE  Flushed(g, w)
  BY DEF lfs_file_flush
<1>1. Copying(g, t)
  BY TailCopiedCopies
<1>2. Shape(t) /\ t \in FileRecord /\ ListShape(t) /\ Len(t.branch) = t.pos
  BY <1>1 DEF Copying, Shape, ListShape
<1>3. g.pos \in Nat /\ g.size \in Nat /\ lfs_file_rawsize(g) \in Nat
      /\ lfs_file_rawsize(g) = (IF g.pos >= g.size THEN g.pos ELSE g.size)
  <2>1. g \in FileRecord
    BY DEF Shape
  <2> QED
    BY <2>1, FileRecordFields, RawSize
<1>4. CASE ~Ok(t)
  <2>1. w = t
    BY <1>4 DEF ListSwapped
  <2>2. t.err = "nospc"
    BY <1>2, <1>4, FileRecordFields DEF Ok
  <2> QED
    BY <1>1, <1>4, <2>1, <2>2 DEF Flushed, Copying
<1>5. CASE Ok(t)
  <2> DEFINE fl == (t.flags \cup {"DIRTY"}) \ {"WRITING"}
             z == <<>>
  <2>1. t.flags \subseteq Flags /\ t.branch \in Seq(Byte) /\ t.list \in Seq(Byte) /\ t.pos \in Nat
        /\ Len(t.list) \in Nat
    BY <1>2, FileRecordFields
  <2>2. w = [[[t EXCEPT !.flags = @ \cup {"DIRTY"}] EXCEPT !.flags = @ \ {"WRITING"}] EXCEPT
               !.head = "list", !.list = t.branch, !.size = t.pos, !.pos = g.pos,
               !.branch = z, !.offset = 0]
    BY <1>5, Zenon DEF ListSwapped, Add, Drop
  <2>3. z \in Seq(Byte) /\ 0 \in 0..BlockSize /\ Len(z) = 0
    BY Constants
  <2> HIDE DEF z
  <2>4. w = [t EXCEPT !.flags = fl, !.head = "list", !.list = t.branch, !.size = t.pos, !.pos = g.pos,
                      !.branch = z, !.offset = 0]
    BY <1>2, <2>2 DEF FileRecord
  <2>5. fl \in SUBSET Flags
    BY <2>1 DEF Flags
  <2> HIDE DEF fl
  <2>6. /\ w.flags = fl /\ w.head = "list" /\ w.list = t.branch /\ w.size = t.pos /\ w.pos = g.pos
        /\ w.buffer = t.buffer /\ w.branch = z /\ w.err = t.err /\ w \in FileRecord
    BY <1>2, <1>3, <2>1, <2>3, <2>4, <2>5 DEF FileRecord
  <2>7. /\ ~Is(w, "INLINE") /\ ~Is(w, "WRITING") /\ Is(w, "DIRTY") /\ Ok(w)
        /\ Is(w, "ERRED") <=> Is(g, "ERRED")
    BY <1>1, <1>5, <2>6 DEF Copying, Is, fl, Ok
  <2>8. ListShape(w)
    BY <1>2, <2>6, <2>7 DEF ListShape, z
  <2>9. Shape(w)
    BY <2>6, <2>7, <2>8 DEF Shape
  <2>10. ContentsOf(t) = t.branch
    <3>1. ContentsOf(t) = Over(t.branch, t.list) /\ Len(t.list) <= t.size
      BY <1>1, <1>2, BranchContents DEF Copying
    <3>2. Len(t.list) <= Len(t.branch)
      BY <1>1, <1>2, <1>3, <1>5, <2>1, <3>1 DEF Copying
    <3> QED
      BY <2>1, <3>1, <3>2, OverCovers
  <2>11. ContentsOf(w) = ContentsOf(g)
    BY <1>1, <2>6, <2>7, <2>10 DEF ContentsOf, Copying
  <2> QED
    BY <1>1, <1>5, <2>6, <2>7, <2>9, <2>11 DEF Flushed, Copying
<1> QED
  BY <1>4, <1>5

\* A flush is never without its blocks ("corrupt"), and loses no bytes.
LEMMA FlushKeeps == ASSUME NEW g, Shape(g), Ok(g)
  PROVE  Flushed(g, lfs_file_flush(g))
<1>1. CASE ~Is(g, "WRITING")
  <2>1. lfs_file_flush(g) = g
    BY <1>1 DEF lfs_file_flush
  <2>2. lfs_file_rawsize(g) = g.size
    BY <1>1 DEF lfs_file_rawsize
  <2> QED
    BY <1>1, <2>1, <2>2 DEF Flushed
<1> QED
  BY <1>1, FlushInline, FlushList

-----------------------------------------------------------------------------
(* lfs_file_rawseek and lfs_file_rawwrite *)

\* The same file at another position.  It is not being written, unless the
\* position stays.
LEMMA Moved ==
  ASSUME NEW g, Shape(g), NEW n \in Nat, ~Is(g, "WRITING") \/ n = g.pos,
         NEW w, w = [g EXCEPT !.pos = n]
  PROVE  /\ Shape(w) /\ ContentsOf(w) = ContentsOf(g) /\ w.pos = n
         /\ lfs_file_rawsize(w) = lfs_file_rawsize(g)
         /\ w.flags = g.flags /\ w.size = g.size /\ w.err = g.err
<1>1. g \in FileRecord
  BY DEF Shape
<1>2. /\ w.flags = g.flags /\ w.pos = n /\ w.size = g.size /\ w.head = g.head /\ w.list = g.list
      /\ w.buffer = g.buffer /\ w.branch = g.branch /\ w.err = g.err /\ w \in FileRecord
  BY <1>1 DEF FileRecord
<1>3. ASSUME NEW flag PROVE Is(w, flag) <=> Is(g, flag)
  BY <1>2 DEF Is
<1>4. lfs_file_rawsize(w) = lfs_file_rawsize(g)
  BY <1>2, <1>3 DEF lfs_file_rawsize
<1>5. ContentsOf(w) = ContentsOf(g)
  BY <1>2, <1>3, <1>4 DEF ContentsOf
<1>6. Shape(w)
  BY <1>2, <1>3 DEF Shape, InlineShape, ListShape
<1> QED
  BY <1>2, <1>4, <1>5, <1>6

\* The position is the one asked for, or blocks have run out.
Sought(g, n, w) ==
  /\ Shape(w) /\ ContentsOf(w) = ContentsOf(g)
  /\ Ok(w) => /\ w.pos = n
              /\ g.pos = n \/ ~Is(w, "WRITING")
              /\ Is(w, "ERRED") <=> Is(g, "ERRED")
  /\ ~Ok(w) => Is(w, "ERRED") /\ w.err = "nospc" /\ w.pos <= lfs_file_rawsize(g)
  /\ Is(g, "DIRTY") \/ Is(g, "WRITING") => Is(w, "DIRTY") \/ Is(w, "WRITING")
  /\ ~Is(g, "WRITING") => Ok(w)

\* lfs_file_rawseek.
LEMMA SeekMoves == ASSUME NEW g, Shape(g), Ok(g), NEW n \in Nat
  PROVE  Sought(g, n, lfs_file_rawseek(g, n))
<1>1. CASE g.pos = n
  <2>1. lfs_file_rawseek(g, n) = [g EXCEPT !.pos = n]
    BY <1>1, Zenon DEF lfs_file_rawseek, AtPosition
  <2>2. [g EXCEPT !.pos = n] = g
    BY <1>1 DEF Shape, FileRecord
  <2> QED
    BY <1>1, <2>1, <2>2 DEF Sought
<1>2. CASE g.pos # n
  <2> SUFFICES ASSUME NEW v, v = lfs_file_flush(g), NEW w, w = AtPosition(v, n)
               PROVE  Sought(g, n, w)
    BY <1>2 DEF lfs_file_rawseek
  <2>1. Flushed(g, v)
    BY FlushKeeps
  <2>2. CASE ~Ok(v)
    <3>1. w = v
      BY <2>2 DEF AtPosition
    <3>2. Is(g, "WRITING")
      BY <2>1, <2>2 DEF Flushed
    <3> QED
      BY <2>1, <2>2, <3>1, <3>2 DEF Flushed, Sought
  <2>3. CASE Ok(v)
    <3>1. w = [v EXCEPT !.pos = n] /\ Shape(v) /\ ~Is(v, "WRITING")
      BY <2>1, <2>3 DEF AtPosition, Flushed
    <3>2. /\ Shape(w) /\ ContentsOf(w) = ContentsOf(v) /\ w.pos = n
          /\ w.flags = v.flags /\ w.err = v.err
      BY <3>1, Moved
    <3>3. Ok(w) /\ \A flag : Is(w, flag) <=> Is(v, flag)
      BY <2>3, <3>2 DEF Ok, Is
    <3> QED
      BY <2>1, <2>3, <3>1, <3>2, <3>3 DEF Flushed, Sought
  <2> QED
    BY <2>2, <2>3
<1> QED
  BY <1>1, <1>2

\* A write that succeeds drops LFS_F_ERRED and changes nothing else.
LEMMA NotErredFields == ASSUME NEW g, Shape(g), NEW w, w = NotErredIfOk(g)
  PROVE  /\ Shape(w) /\ ContentsOf(w) = ContentsOf(g) /\ w.pos = g.pos /\ w.err = g.err
         /\ w.size = g.size /\ lfs_file_rawsize(w) = lfs_file_rawsize(g)
         /\ Is(w, "WRITING") <=> Is(g, "WRITING")
         /\ Is(w, "DIRTY") <=> Is(g, "DIRTY")
         /\ Is(w, "INLINE") <=> Is(g, "INLINE")
         /\ Is(w, "ERRED") <=> Is(g, "ERRED") /\ ~Ok(g)
<1>1. CASE ~Ok(g)
  BY <1>1 DEF NotErredIfOk
<1>2. CASE Ok(g)
  <2> DEFINE fl == g.flags \ {"ERRED"}
  <2>1. g \in FileRecord
    BY DEF Shape
  <2>2. w = [g EXCEPT !.flags = fl]
    BY <1>2, <2>1 DEF NotErredIfOk, Drop, FileRecord
  <2>3. fl \in SUBSET Flags
    BY <2>1, FileRecordFields
  <2> HIDE DEF fl
  <2>4. /\ w.flags = fl /\ w.pos = g.pos /\ w.size = g.size /\ w.head = g.head /\ w.list = g.list
        /\ w.buffer = g.buffer /\ w.branch = g.branch /\ w.err = g.err /\ w \in FileRecord
    BY <2>1, <2>2, <2>3 DEF FileRecord
  <2>5. /\ Is(w, "WRITING") <=> Is(g, "WRITING")
        /\ Is(w, "DIRTY") <=> Is(g, "DIRTY")
        /\ Is(w, "INLINE") <=> Is(g, "INLINE")
        /\ ~Is(w, "ERRED")
    BY <2>4 DEF Is, fl
  <2>6. lfs_file_rawsize(w) = lfs_file_rawsize(g)
    BY <2>4, <2>5 DEF lfs_file_rawsize
  <2>7. ContentsOf(w) = ContentsOf(g)
    BY <2>4, <2>5, <2>6 DEF ContentsOf
  <2>8. Shape(w)
    BY <2>4, <2>5 DEF Shape, InlineShape, ListShape
  <2> QED
    BY <1>2, <2>4, <2>5, <2>6, <2>7, <2>8
<1> QED
  BY <1>1, <1>2

\* Where a write at p begins, and what it writes from there: a gap is filled.
From(g, p) == IF p <= Len(ContentsOf(g)) THEN p ELSE Len(ContentsOf(g))
Filled(g, p, d) == Zeros(p - From(g, p)) \o d

\* The gap in front of a write is filled, so that the write begins inside.
LEMMA FilledProperties == ASSUME NEW g, Shape(g), NEW p \in Nat, NEW d \in Seq(Byte)
  PROVE  /\ From(g, p) \in 0..Len(ContentsOf(g)) /\ p - From(g, p) \in Nat
         /\ Filled(g, p, d) \in Seq(Byte)
         /\ From(g, p) + Len(Filled(g, p, d)) = p + Len(d)
         /\ p <= Len(ContentsOf(g)) => From(g, p) = p /\ Filled(g, p, d) = d
<1> DEFINE z == Zeros(p - From(g, p))
           l == Len(ContentsOf(g))
<1>1. l \in Nat /\ Len(d) \in Nat
  <2>1. ContentsOf(g) \in Seq(Byte)
    BY ContentsProperties
  <2> QED
    BY <2>1
<1>2. From(g, p) = IF p <= l THEN p ELSE l
  BY DEF From
<1> HIDE DEF l
<1>3. From(g, p) \in 0..l /\ p - From(g, p) \in Nat
  BY <1>1, <1>2
<1>4. z \in Seq(Byte) /\ Len(z) = p - From(g, p)
  BY <1>3, ZerosProperties
<1> HIDE DEF z
<1>5. z \o d \in Seq(Byte) /\ Len(z \o d) = Len(z) + Len(d)
  BY <1>4, ConcatProperties
<1>6. From(g, p) + Len(z \o d) = p + Len(d)
  <2>1. Len(z \o d) = (p - From(g, p)) + Len(d)
    BY <1>4, <1>5
  <2> QED
    BY <1>1, <1>3, <2>1
<1>7. p <= l => z \o d = d
  <2>1. p <= l => Len(z) = 0
    BY <1>2, <1>4
  <2>2. Len(z) = 0 => z = <<>>
    BY <1>4, EmptySeq
  <2> QED
    BY <2>1, <2>2, ConcatEmptySeq
<1> QED
  BY <1>2, <1>3, <1>5, <1>6, <1>7 DEF Filled, z, l

\* A write where Careful asks it to be, or with one bound.
Covers(g, p, n) == Is(g, "INLINE") /\ g.size > OutlineAbove => g.size <= p + n

\* A write goes on where the last one ended.
LEMMA WritePosProperties == ASSUME NEW g, Shape(g)
  PROVE  /\ WritePos(g) \in Nat /\ (Appending => g.size <= WritePos(g))
         /\ Is(g, "WRITING") => WritePos(g) = g.pos
<1>1. g.pos \in Nat /\ g.size \in Nat /\ (Appending /\ Is(g, "WRITING") => g.size <= g.pos)
  BY FileRecordFields DEF Shape
<1> QED
  BY <1>1, Constants DEF WritePos

\* A write that leaves no gap.
LEMMA WriteWithoutGap ==
  ASSUME NEW g, Shape(g), Ok(g), NEW d \in Seq(Byte), Covers(g, WritePos(g), Len(d)),
         Is(g, "WRITING") \/ WritePos(g) <= g.size
  PROVE  \E h : /\ h = [g EXCEPT !.pos = From(g, WritePos(g))]
                /\ Wrote(h, Filled(g, WritePos(g), d), WriteIfOk(GapFilled(g, WritePos(g)), d))
<1> DEFINE p == WritePos(g)
           h == [g EXCEPT !.pos = p]
<1>1. p \in Nat /\ (Appending => g.size <= p) /\ (Is(g, "WRITING") => p = g.pos)
  BY WritePosProperties
<1>2. p <= lfs_file_rawsize(g) /\ Len(ContentsOf(g)) = lfs_file_rawsize(g)
  <2>1. g.pos \in Nat /\ g.size \in Nat /\ g \in FileRecord
    BY FileRecordFields DEF Shape
  <2> QED
    BY <1>1, <2>1, RawSize, ContentsProperties
<1>3. From(g, p) = p /\ Filled(g, p, d) = d
  BY <1>1, <1>2, FilledProperties
<1>4. GapFilled(g, p) = h
  <2>1. g.size \in Nat
    BY FileRecordFields DEF Shape
  <2>2. ~(~Is(g, "WRITING") /\ p > g.size)
    BY <1>1, <2>1
  <2> QED
    BY <2>2 DEF GapFilled
<1> HIDE DEF p
<1>5. /\ Shape(h) /\ h.pos = p /\ lfs_file_rawsize(h) = lfs_file_rawsize(g)
      /\ h.flags = g.flags /\ h.size = g.size /\ h.err = g.err
  BY <1>1, Moved
<1> HIDE DEF h
<1>6. Ok(h) /\ (Is(h, "INLINE") <=> Is(g, "INLINE"))
  BY <1>5 DEF Ok, Is
<1>7. Ready(h, Len(d))
  BY <1>1, <1>2, <1>5, <1>6 DEF Ready, Covers, p
<1>8. Wrote(h, d, lfs_file_flushedwrite(h, d))
  BY <1>7, FlushedWrite
<1>9. WriteIfOk(h, d) = lfs_file_flushedwrite(h, d)
  BY <1>6 DEF WriteIfOk
<1> QED
  BY <1>3, <1>4, <1>8, <1>9 DEF h, p

\* A write behind the end, the gap filled with zeros first.
LEMMA WriteBehindGap ==
  ASSUME NEW g, Shape(g), Ok(g), NEW d \in Seq(Byte), ~Is(g, "WRITING"), WritePos(g) > g.size
  PROVE  \E h : /\ h = [g EXCEPT !.pos = From(g, WritePos(g))]
                /\ Wrote(h, Filled(g, WritePos(g), d), WriteIfOk(GapFilled(g, WritePos(g)), d))
<1> DEFINE p == WritePos(g)
           h == [g EXCEPT !.pos = g.size]
           z == Zeros(p - g.size)
           w == FillZeros(h, p)
           x == WriteIfOk(w, d)
<1>1. p \in Nat /\ g.size \in Nat /\ p > g.size
  BY WritePosProperties, FileRecordFields DEF Shape
<1>2. lfs_file_rawsize(g) = g.size /\ Len(ContentsOf(g)) = g.size
  BY RawSize, ContentsProperties DEF Shape
<1>3. From(g, p) = g.size /\ Filled(g, p, d) = z \o d
  BY <1>1, <1>2 DEF From, Filled
<1>4. GapFilled(g, p) = w
  BY <1>1 DEF GapFilled
<1> HIDE DEF p
<1>5. /\ Shape(h) /\ h.pos = g.size /\ lfs_file_rawsize(h) = g.size
      /\ h.flags = g.flags /\ h.size = g.size /\ h.err = g.err
  BY <1>1, <1>2, Moved
<1> HIDE DEF h
<1>6. AtEnd(h)
  BY <1>1, <1>5 DEF AtEnd, Ok
<1>7. z \in Seq(Byte)
  BY <1>1, ZerosProperties
<1>8. Wrote(h, z, w)
  BY <1>1, <1>5, <1>6, FillZerosWrites
<1> HIDE DEF z, w
<1>9. Ok(w) => Wrote(w, d, x)
  <2>1. SUFFICES ASSUME Ok(w) PROVE Wrote(w, d, x)
    OBVIOUS
  <2>2. AtEnd(w)
    BY <1>6, <1>7, <1>8, <2>1, StaysAtEnd
  <2>3. Ready(w, Len(d))
    BY <2>2, AtEndReady
  <2>4. Wrote(w, d, lfs_file_flushedwrite(w, d))
    BY <2>3, FlushedWrite
  <2> QED
    BY <2>1, <2>4 DEF WriteIfOk
<1>10. IF Ok(w) THEN Wrote(w, d, x) ELSE x = w
  BY <1>9 DEF WriteIfOk
<1> HIDE DEF x
<1>11. Wrote(h, z \o d, x)
  BY <1>6, <1>7, <1>8, <1>10, WroteThen DEF AtEnd
<1> QED
  BY <1>3, <1>4, <1>11 DEF h, x, p

\* What a write makes of the bytes: those that it got to are the new ones.
WroteAt(g, p, d, w) ==
  /\ Shape(w)
  /\ \E k \in 0..Len(Filled(g, p, d)) :
       /\ ContentsOf(w) = Put(ContentsOf(g), From(g, p), SubSeq(Filled(g, p, d), 1, k))
       /\ w.pos = From(g, p) + k
       /\ Ok(w) => k = Len(Filled(g, p, d))
  /\ Is(w, "ERRED") <=> ~Ok(w)
  /\ ~Ok(w) => w.err = "nospc"
  /\ Is(g, "DIRTY") \/ Is(g, "WRITING") => Is(w, "DIRTY") \/ Is(w, "WRITING")
  /\ ~Is(w, "WRITING") => ContentsOf(w) = ContentsOf(g)

\* Erred as well: the write that fails sets it, and one that does not clears.
LEMMA WroteThenAt ==
  ASSUME NEW g, Shape(g), Ok(g), NEW p \in Nat, NEW d \in Seq(Byte),
         ~Is(g, "WRITING") \/ From(g, p) = g.pos,
         NEW h, h = [g EXCEPT !.pos = From(g, p)], NEW x, Wrote(h, Filled(g, p, d), x)
  PROVE  WroteAt(g, p, d, NotErredIfOk(x))
<1> SUFFICES ASSUME NEW w, w = NotErredIfOk(x) PROVE WroteAt(g, p, d, w)
  OBVIOUS
<1> DEFINE q == From(g, p)
           a == Filled(g, p, d)
<1>1. q \in Nat
  BY FilledProperties
<1> HIDE DEF q
<1>2. /\ Shape(h) /\ ContentsOf(h) = ContentsOf(g) /\ h.pos = q /\ h.flags = g.flags
  BY <1>1, Moved DEF q
<1>3. Wrote(h, a, x)
  OBVIOUS
<1> HIDE DEF a
<1>4. PICK k \in 0..Len(a) : WroteTo(h, a, k, x)
  BY <1>3 DEF Wrote
<1>5. Shape(x)
  BY <1>3 DEF Wrote
<1>6. /\ Shape(w) /\ ContentsOf(w) = ContentsOf(x) /\ w.pos = x.pos /\ w.err = x.err
      /\ Is(w, "WRITING") <=> Is(x, "WRITING")
      /\ Is(w, "DIRTY") <=> Is(x, "DIRTY")
      /\ Is(w, "ERRED") <=> Is(x, "ERRED") /\ ~Ok(x)
  BY <1>5, NotErredFields
<1>7. \A flag : Is(h, flag) <=> Is(g, flag)
  BY <1>2 DEF Is
<1>8. Ok(w) <=> Ok(x)
  BY <1>6 DEF Ok
<1>9. Is(w, "ERRED") <=> ~Ok(w)
  BY <1>3, <1>6, <1>8 DEF Wrote
<1>10. ~Ok(w) => w.err = "nospc"
  BY <1>6, FileRecordFields DEF Shape, Ok
<1>11. /\ ContentsOf(w) = Put(ContentsOf(g), q, SubSeq(a, 1, k))
       /\ w.pos = q + k /\ (Ok(w) => k = Len(a))
  BY <1>2, <1>4, <1>6, <1>8 DEF WroteTo
<1>12. /\ Is(g, "DIRTY") \/ Is(g, "WRITING") => Is(w, "DIRTY") \/ Is(w, "WRITING")
       /\ ~Is(w, "WRITING") => ContentsOf(w) = ContentsOf(g)
  BY <1>2, <1>3, <1>6, <1>7 DEF Wrote
<1> QED
  BY <1>6, <1>9, <1>10, <1>11, <1>12 DEF WroteAt, a, q

\* lfs_file_rawwrite writes all bytes, or a front of them and fails.
LEMMA RawWrite ==
  ASSUME NEW g, Shape(g), Ok(g), NEW d \in Seq(Byte), Covers(g, WritePos(g), Len(d))
  PROVE  WroteAt(g, WritePos(g), d, lfs_file_rawwrite(g, d))
<1> DEFINE p == WritePos(g)
           x == WriteIfOk(GapFilled(g, p), d)
<1>1. p \in Nat /\ g.size \in Nat
  BY WritePosProperties, FileRecordFields DEF Shape
<1>2. \E h : h = [g EXCEPT !.pos = From(g, p)] /\ Wrote(h, Filled(g, p, d), x)
  <2>1. Is(g, "WRITING") \/ p <= g.size \/ (~Is(g, "WRITING") /\ p > g.size)
    BY <1>1
  <2> QED
    BY <2>1, WriteWithoutGap, WriteBehindGap
<1>3. PICK h : h = [g EXCEPT !.pos = From(g, p)] /\ Wrote(h, Filled(g, p, d), x)
  BY <1>2
<1>4. ~Is(g, "WRITING") \/ From(g, p) = g.pos
  <2>1. SUFFICES ASSUME Is(g, "WRITING") PROVE From(g, p) = g.pos
    OBVIOUS
  <2>2. p = g.pos /\ g.pos <= Len(ContentsOf(g))
    <3>1. g.pos \in Nat /\ g \in FileRecord
      BY FileRecordFields DEF Shape
    <3> QED
      BY <1>1, <2>1, <3>1, WritePosProperties, RawSize, ContentsProperties
  <2> QED
    BY <1>1, <2>2, FilledProperties
<1>5. lfs_file_rawwrite(g, d) = NotErredIfOk(x)
  BY DEF lfs_file_rawwrite
<1> HIDE DEF p, x
<1>6. WroteAt(g, p, d, NotErredIfOk(x))
  BY <1>1, <1>3, <1>4, WroteThenAt
<1> QED
  BY <1>5, <1>6 DEF p

-----------------------------------------------------------------------------
(* lfs_file_rawtruncate *)

\* What a read or a sync takes of a file that is not being written.
LEMMA BytesAreContents == ASSUME NEW s, Shape(s), ~Is(s, "WRITING")
  PROVE  /\ Bytes(s) = ContentsOf(s) /\ ContentsOf(s) \in Seq(Byte)
         /\ Len(ContentsOf(s)) = s.size /\ lfs_file_rawsize(s) = s.size
<1>1. lfs_file_rawsize(s) = s.size
  BY DEF lfs_file_rawsize
<1>2. ContentsOf(s) \in Seq(Byte) /\ Len(ContentsOf(s)) = s.size
  BY <1>1, ContentsProperties
<1>3. Bytes(s) = ContentsOf(s)
  BY <1>1 DEF Bytes, ContentsOf
<1> QED
  BY <1>1, <1>2, <1>3

\* Shorter, nothing being written.
Shortened(s, n, w) ==
  /\ Shape(w) /\ ContentsOf(w) = SubSeq(ContentsOf(s), 1, n)
  /\ Ok(w) /\ ~Is(w, "WRITING") /\ Is(w, "DIRTY") /\ w.pos = n
  /\ Is(w, "ERRED") <=> Is(s, "ERRED")

\* A truncation that makes the file inline.
LEMMA InlineShortens ==
  ASSUME NEW s, Shape(s), Ok(s), ~Is(s, "WRITING"), NEW n \in 0..s.size, n <= InlineUpTo
  PROVE  Shortened(s, n, ToInline(s, n))
<1> SUFFICES ASSUME NEW w, w = ToInline(s, n) PROVE Shortened(s, n, w)
  OBVIOUS
<1> DEFINE c == ContentsOf(s)
           e == SubSeq(c, 1, n)
           b == Put(s.buffer, 0, e)
           fl == s.flags \cup {"DIRTY", "INLINE"}
           z == <<>>
<1>1. s \in FileRecord /\ s.branch = <<>>
  BY DEF Shape, InlineShape, ListShape
<1>2. /\ s.flags \subseteq Flags /\ s.size \in Nat /\ s.buffer \in Seq(Byte) /\ Len(s.buffer) \in Nat
      /\ n \in Nat /\ n <= s.size
  BY <1>1, FileRecordFields
<1>3. Bytes(s) = c /\ c \in Seq(Byte) /\ Len(c) = s.size
  BY BytesAreContents
<1> HIDE DEF c
<1>4. e \in Seq(Byte) /\ Len(e) = n
  BY <1>2, <1>3, FrontProperties
<1>5. w = [[s EXCEPT !.flags = @ \cup {"DIRTY", "INLINE"}] EXCEPT
             !.buffer = Put(@, 0, e), !.head = "inline", !.list = z, !.size = n, !.pos = n]
  BY <1>3, Zenon DEF ToInline, Add
<1> HIDE DEF e
<1>6. /\ b \in Seq(Byte) /\ Len(b) = (IF n >= Len(s.buffer) THEN n ELSE Len(s.buffer))
      /\ \A i \in 1..n : b[i] = e[i]
  <2>1. 0 \in 0..Len(s.buffer)
    BY <1>2
  <2>2. /\ b \in Seq(Byte) /\ Len(b) = (IF 0 + Len(e) >= Len(s.buffer) THEN 0 + Len(e) ELSE Len(s.buffer))
        /\ \A i \in 1..Len(b) : b[i] = IF i <= 0 THEN s.buffer[i]
                                       ELSE IF i <= 0 + Len(e) THEN e[i - 0] ELSE s.buffer[i]
    BY <1>2, <1>4, <2>1, PutProperties
  <2> HIDE DEF b
  <2>3. Len(b) = (IF n >= Len(s.buffer) THEN n ELSE Len(s.buffer))
    BY <1>2, <1>4, <2>2
  <2>4. ASSUME NEW i \in 1..n PROVE b[i] = e[i]
    <3>1. i \in 1..Len(b) /\ ~(i <= 0) /\ i <= 0 + Len(e) /\ i - 0 = i
      BY <1>2, <1>4, <2>3
    <3> QED
      BY <2>2, <3>1
  <2> QED
    BY <2>2, <2>3, <2>4
<1>7. fl \in SUBSET Flags /\ z \in Seq(Byte)
  BY <1>2 DEF Flags
<1>8. w = [s EXCEPT !.flags = fl, !.buffer = b, !.head = "inline", !.list = z, !.size = n, !.pos = n]
  BY <1>1, <1>5 DEF FileRecord
<1> HIDE DEF fl, b, z
<1>9. /\ w.flags = fl /\ w.pos = n /\ w.size = n /\ w.head = "inline" /\ w.list = z
      /\ w.buffer = b /\ w.branch = s.branch /\ w.err = s.err /\ w \in FileRecord
  BY <1>1, <1>2, <1>6, <1>7, <1>8 DEF FileRecord
<1>10. /\ Is(w, "INLINE") /\ Is(w, "DIRTY") /\ ~Is(w, "WRITING") /\ Ok(w)
       /\ Is(w, "ERRED") <=> Is(s, "ERRED")
  BY <1>9 DEF Is, Ok, fl
<1>11. Len(b) <= InlineUpTo /\ n <= Len(b)
  <2>1. Len(s.buffer) <= InlineUpTo
    BY DEF Shape, InlineShape, ListShape
  <2>2. Len(b) = (IF n >= Len(s.buffer) THEN n ELSE Len(s.buffer))
    BY <1>6
  <2> QED
    BY <1>2, <2>1, <2>2, Constants
<1>12. InlineShape(w)
  BY <1>1, <1>9, <1>10, <1>11 DEF InlineShape, z
<1>13. Shape(w)
  BY <1>9, <1>10, <1>12 DEF Shape
<1>14. ContentsOf(w) = e
  <2>1. lfs_file_rawsize(w) = n
    BY <1>9, <1>10 DEF lfs_file_rawsize
  <2>2. /\ ContentsOf(w) \in Seq(Byte) /\ Len(ContentsOf(w)) = n
        /\ \A i \in 1..n : ContentsOf(w)[i] = b[i]
    BY <1>9, <1>10, <1>13, <2>1, InlineContents
  <2>3. \A i \in 1..n : ContentsOf(w)[i] = e[i]
    BY <1>6, <2>2
  <2> QED
    BY <1>4, <2>2, <2>3, SameSequence
<1> QED
  BY <1>9, <1>10, <1>13, <1>14 DEF Shortened, e, c

\* A truncation to a shorter list.
LEMMA PrefixShortens ==
  ASSUME NEW s, Shape(s), Ok(s), ~Is(s, "WRITING"), ~Is(s, "INLINE"), NEW n \in 0..s.size
  PROVE  Shortened(s, n, ToPrefix(s, n))
<1> SUFFICES ASSUME NEW w, w = ToPrefix(s, n) PROVE Shortened(s, n, w)
  OBVIOUS
<1> DEFINE e == SubSeq(s.list, 1, n)
           fl == s.flags \cup {"DIRTY"}
<1>1. s \in FileRecord /\ s.branch = <<>> /\ s.head = "list" /\ Len(s.list) = s.size
      /\ Len(s.buffer) <= InlineUpTo
  BY DEF Shape, ListShape
<1>2. s.flags \subseteq Flags /\ s.size \in Nat /\ s.list \in Seq(Byte) /\ n \in Nat
  BY <1>1, FileRecordFields
<1>3. ContentsOf(s) = s.list
  BY ListContents
<1>4. e \in Seq(Byte) /\ Len(e) = n
  BY <1>1, <1>2, FrontProperties
<1>5. fl \in SUBSET Flags
  BY <1>2 DEF Flags
<1>6. w = [s EXCEPT !.flags = fl, !.list = e, !.size = n, !.pos = n]
  BY <1>1 DEF ToPrefix, Add, FileRecord
<1> HIDE DEF fl, e
<1>7. /\ w.flags = fl /\ w.pos = n /\ w.size = n /\ w.head = s.head /\ w.list = e
      /\ w.buffer = s.buffer /\ w.branch = s.branch /\ w.err = s.err /\ w \in FileRecord
  BY <1>1, <1>2, <1>4, <1>5, <1>6 DEF FileRecord
<1>8. /\ ~Is(w, "INLINE") /\ Is(w, "DIRTY") /\ ~Is(w, "WRITING") /\ Ok(w)
      /\ Is(w, "ERRED") <=> Is(s, "ERRED")
  BY <1>7 DEF Is, Ok, fl
<1>9. ListShape(w)
  BY <1>1, <1>4, <1>7, <1>8 DEF ListShape
<1>10. Shape(w)
  BY <1>7, <1>8, <1>9 DEF Shape
<1>11. ContentsOf(w) = e
  BY <1>7, <1>8, <1>10, ListContents
<1> QED
  BY <1>3, <1>7, <1>8, <1>10, <1>11 DEF Shortened, e

\* A truncation to fewer bytes.
LEMMA ResizeShortens ==
  ASSUME NEW g, Shape(g), Ok(g), NEW n \in Nat, n < lfs_file_rawsize(g),
         NEW w, w = Resized(g, n)
  PROVE  \/ Shortened(g, n, w)
         \/ /\ Shape(w) /\ ~Ok(w) /\ ContentsOf(w) = ContentsOf(g) /\ Is(w, "ERRED")
            /\ w.err = "nospc" /\ w.pos <= lfs_file_rawsize(g)
            /\ Is(w, "DIRTY") \/ Is(w, "WRITING")
<1>1. g \in FileRecord /\ lfs_file_rawsize(g) \in Nat
  BY RawSize DEF Shape
<1>2. CASE n <= InlineUpTo
  <2> SUFFICES ASSUME NEW s, s = lfs_file_rawseek(g, 0), w = ToInline(s, n)
               PROVE  \/ Shortened(g, n, w)
                      \/ /\ Shape(w) /\ ~Ok(w) /\ ContentsOf(w) = ContentsOf(g) /\ Is(w, "ERRED")
                         /\ w.err = "nospc" /\ w.pos <= lfs_file_rawsize(g)
                         /\ Is(w, "DIRTY") \/ Is(w, "WRITING")
    BY <1>2 DEF Resized
  <2>1. Sought(g, 0, s)
    BY SeekMoves
  <2>2. CASE ~Ok(s)
    <3>1. w = s
      BY <2>2 DEF ToInline
    <3>2. Is(g, "WRITING")
      BY <2>1, <2>2 DEF Sought
    <3> QED
      BY <2>1, <2>2, <3>1, <3>2 DEF Sought
  <2>3. CASE Ok(s)
    <3>1. ~Is(s, "WRITING")
      <4>1. Shape(s) /\ s.pos = 0
        BY <2>1, <2>3 DEF Sought
      <4> QED
        BY <4>1 DEF Shape
    <3>2. Shape(s) /\ ContentsOf(s) = ContentsOf(g) /\ (Is(s, "ERRED") <=> Is(g, "ERRED"))
      BY <2>1, <2>3 DEF Sought
    <3>3. s.size = lfs_file_rawsize(g)
      BY <3>1, <3>2, BytesAreContents, ContentsProperties
    <3>4. n \in 0..s.size
      BY <1>1, <3>3
    <3>5. Shortened(s, n, w)
      BY <1>2, <2>3, <3>1, <3>2, <3>4, InlineShortens
    <3> QED
      BY <3>2, <3>5 DEF Shortened
  <2> QED
    BY <2>2, <2>3
<1>3. CASE n > InlineUpTo
  <2> SUFFICES ASSUME NEW s, s = lfs_file_flush(g), w = ToPrefix(s, n)
               PROVE  \/ Shortened(g, n, w)
                      \/ /\ Shape(w) /\ ~Ok(w) /\ ContentsOf(w) = ContentsOf(g) /\ Is(w, "ERRED")
                         /\ w.err = "nospc" /\ w.pos <= lfs_file_rawsize(g)
                         /\ Is(w, "DIRTY") \/ Is(w, "WRITING")
    <3>1. ~(n <= InlineUpTo)
      BY <1>3, Constants
    <3> QED
      BY <3>1 DEF Resized
  <2>1. Flushed(g, s)
    BY FlushKeeps
  <2>2. CASE ~Ok(s)
    <3>1. w = s
      BY <2>2 DEF ToPrefix
    <3>2. Is(g, "WRITING")
      BY <2>1, <2>2 DEF Flushed
    <3> QED
      BY <2>1, <2>2, <3>1, <3>2 DEF Flushed
  <2>3. CASE Ok(s)
    <3>1. /\ Shape(s) /\ ContentsOf(s) = ContentsOf(g) /\ (Is(s, "ERRED") <=> Is(g, "ERRED"))
          /\ ~Is(s, "WRITING") /\ s.size = lfs_file_rawsize(g)
      BY <2>1, <2>3 DEF Flushed
    <3>2. ~Is(s, "INLINE")
      <4>1. SUFFICES ASSUME Is(s, "INLINE") PROVE FALSE
        OBVIOUS
      <4>2. s.size <= Len(s.buffer) /\ Len(s.buffer) <= InlineUpTo /\ Len(s.buffer) \in Nat
        BY <3>1, <4>1, FileRecordFields DEF Shape, InlineShape
      <4> QED
        BY <1>1, <1>3, <3>1, <4>2, Constants
    <3>3. n \in 0..s.size
      BY <1>1, <3>1
    <3>4. Shortened(s, n, w)
      BY <2>3, <3>1, <3>2, <3>3, PrefixShortens
    <3> QED
      BY <3>1, <3>4 DEF Shortened
  <2> QED
    BY <2>2, <2>3
<1> QED
  BY <1>1, <1>2, <1>3, Constants

\* An extension to n bytes is a write of zeros to the end.
LEMMA ResizeExtends ==
  ASSUME NEW g, Shape(g), Ok(g), NEW n \in Nat, n > lfs_file_rawsize(g),
         NEW w, w = Resized(g, n)
  PROVE  WroteAt(g, lfs_file_rawsize(g), Zeros(n - lfs_file_rawsize(g)), w)
         \/ /\ Shape(w) /\ ~Ok(w) /\ ContentsOf(w) = ContentsOf(g) /\ Is(w, "ERRED")
            /\ w.err = "nospc" /\ w.pos <= lfs_file_rawsize(g)
            /\ Is(w, "DIRTY") \/ Is(w, "WRITING")
<1> DEFINE l == lfs_file_rawsize(g)
           d == Zeros(n - l)
<1>1. g \in FileRecord /\ l \in Nat /\ ContentsOf(g) \in Seq(Byte) /\ Len(ContentsOf(g)) = l
  BY RawSize, ContentsProperties DEF Shape
<1>2. d \in Seq(Byte) /\ Len(d) = n - l
  <2>1. n - l \in Nat
    BY <1>1
  <2> HIDE DEF l
  <2> QED
    BY <2>1, ZerosProperties
<1>3. w = Extended(g, n)
  <2>1. ~(n < lfs_file_rawsize(g))
    BY <1>1
  <2> QED
    BY <2>1, Zenon DEF Resized
<1>4. SUFFICES ASSUME NEW s, s = lfs_file_rawseek(g, l), NEW x, x = FillZeros(s, n)
               PROVE  WroteAt(g, l, d, NotErredIfOk(x))
                      \/ \E v : /\ v = NotErredIfOk(x)
                                /\ Shape(v) /\ ~Ok(v) /\ ContentsOf(v) = ContentsOf(g) /\ Is(v, "ERRED")
                                /\ v.err = "nospc" /\ v.pos <= l
                                /\ Is(v, "DIRTY") \/ Is(v, "WRITING")
  BY <1>3 DEF Extended
<1> HIDE DEF l
<1>5. Sought(g, l, s)
  BY <1>1, <1>4, SeekMoves
<1>6. CASE ~Ok(s)
  <2>1. x = s
    BY <1>4, <1>6 DEF FillZeros, ZerosUpTo, WriteIfOk
  <2>2. NotErredIfOk(x) = s
    BY <1>6, <2>1 DEF NotErredIfOk
  <2>3. Is(g, "WRITING")
    BY <1>5, <1>6 DEF Sought
  <2>4. /\ Shape(s) /\ ContentsOf(s) = ContentsOf(g) /\ Is(s, "ERRED")
        /\ s.err = "nospc" /\ s.pos <= l
        /\ Is(s, "DIRTY") \/ Is(s, "WRITING")
    BY <1>5, <1>6, <2>3 DEF Sought, l
  <2> QED
    BY <1>6, <2>2, <2>4
<1>7. CASE Ok(s)
  <2>1. Shape(s) /\ ContentsOf(s) = ContentsOf(g) /\ s.pos = l
        /\ (Is(g, "DIRTY") \/ Is(g, "WRITING") => Is(s, "DIRTY") \/ Is(s, "WRITING"))
    BY <1>5, <1>7 DEF Sought
  <2>2. lfs_file_rawsize(s) = l
    BY <1>1, <2>1, ContentsProperties
  <2>3. s.size <= l
    <3>1. s \in FileRecord /\ s.pos \in Nat /\ s.size \in Nat
      BY <2>1, FileRecordFields DEF Shape
    <3> QED
      BY <1>1, <2>1, <2>2, <3>1, RawSize
  <2>4. AtEnd(s)
    BY <1>1, <1>7, <2>1, <2>2, <2>3 DEF AtEnd
  <2>5. Wrote(s, d, x)
    BY <1>1, <1>4, <2>1, <2>4, FillZerosWrites DEF l
  <2>6. From(s, l) = s.pos /\ Filled(s, l, d) = d /\ From(g, l) = l /\ Filled(g, l, d) = d
    BY <1>1, <1>2, <2>1, FilledProperties
  <2>7. s = [s EXCEPT !.pos = From(s, l)]
    BY <2>1, <2>6 DEF Shape, FileRecord
  <2> HIDE DEF d
  <2>8. Wrote(s, Filled(s, l, d), x)
    BY <2>5, <2>6
  <2>9. WroteAt(s, l, d, NotErredIfOk(x))
    BY <1>1, <1>2, <1>7, <2>1, <2>6, <2>7, <2>8, WroteThenAt
  <2>10. From(s, l) = From(g, l) /\ Filled(s, l, d) = Filled(g, l, d)
    BY <2>1, <2>6
  <2>11. WroteAt(g, l, d, NotErredIfOk(x))
    BY <2>1, <2>9, <2>10 DEF WroteAt
  <2> QED
    BY <2>11
<1> QED
  BY <1>6, <1>7

-----------------------------------------------------------------------------
(* The invariant *)

DiskRecord == [kind: {"inline", "list"}, data: Seq(Byte)]

\* The committed structure fits where it is committed to.
DiskFits ==
  /\ disk \in DiskRecord
  /\ disk.kind = "inline" => Len(disk.data) <= InlineUpTo

\* A file that has nothing to sync has been synced.
Settled(w) ==
  /\ Shape(w) /\ w.pos <= MaxSize /\ Len(ContentsOf(w)) <= MaxSize
  /\ Is(w, "DIRTY") \/ Is(w, "WRITING") \/ ContentsOf(w) = disk.data

IInv == DiskFits /\ Len(disk.data) <= MaxSize /\ Settled(f) /\ f.err = "ok"

\* A write that Careful excludes cannot be made.
OneBound == Careful \/ InlineUpTo <= OutlineAbove

\* The room and the result of a call tell nothing of the file.
Same(g, w) ==
  /\ Shape(w) /\ ContentsOf(w) = ContentsOf(g) /\ w.flags = g.flags
  /\ w.pos = g.pos /\ w.size = g.size
  /\ lfs_file_rawsize(w) = lfs_file_rawsize(g)

\* A change of those only leaves the file as it is.
LEMMA SameFile ==
  ASSUME NEW g, Shape(g), NEW r, r \in Nat, NEW e, e \in {"ok", "nospc"},
         NEW w, w = [g EXCEPT !.room = r, !.err = e]
  PROVE  Same(g, w) /\ w.err = e
<1>1. g \in FileRecord
  BY DEF Shape
<1>2. /\ w.flags = g.flags /\ w.pos = g.pos /\ w.size = g.size /\ w.head = g.head /\ w.list = g.list
      /\ w.buffer = g.buffer /\ w.branch = g.branch /\ w.err = e /\ w \in FileRecord
  BY <1>1 DEF FileRecord
<1>3. ASSUME NEW flag PROVE Is(w, flag) <=> Is(g, flag)
  BY <1>2 DEF Is
<1>4. lfs_file_rawsize(w) = lfs_file_rawsize(g)
  BY <1>2, <1>3 DEF lfs_file_rawsize
<1>5. ContentsOf(w) = ContentsOf(g)
  BY <1>2, <1>3, <1>4 DEF ContentsOf
<1>6. Shape(w)
  BY <1>2, <1>3 DEF Shape, InlineShape, ListShape
<1> QED
  BY <1>2, <1>4, <1>5, <1>6 DEF Same

\* Files with the same flags.
LEMMA FlagsTell == ASSUME NEW g, NEW w, w.flags = g.flags
  PROVE  /\ Is(w, "ERRED") <=> Is(g, "ERRED")
         /\ Is(w, "DIRTY") <=> Is(g, "DIRTY")
         /\ Is(w, "WRITING") <=> Is(g, "WRITING")
         /\ Is(w, "INLINE") <=> Is(g, "INLINE")
BY DEF Is

\* The file that a call begins with is the one the call before left.
LEMMA BeginProperties == ASSUME IInv, NEW r \in Rooms
  PROVE  /\ Shape(Begin(r)) /\ Ok(Begin(r)) /\ ContentsOf(Begin(r)) = ContentsOf(f)
         /\ Begin(r).flags = f.flags /\ Begin(r).pos = f.pos /\ Begin(r).size = f.size
         /\ lfs_file_rawsize(Begin(r)) = lfs_file_rawsize(f)
<1> SUFFICES ASSUME NEW w, w = Begin(r)
             PROVE  /\ Shape(w) /\ Ok(w) /\ ContentsOf(w) = ContentsOf(f)
                    /\ w.flags = f.flags /\ w.pos = f.pos /\ w.size = f.size
                    /\ lfs_file_rawsize(w) = lfs_file_rawsize(f)
  OBVIOUS
<1>1. Shape(f) /\ f \in FileRecord /\ f.err = "ok"
  BY DEF IInv, Settled, Shape
<1>2. w = [f EXCEPT !.room = r, !.err = "ok"]
  BY <1>1 DEF Begin, FileRecord
<1>3. r \in Nat
  BY Constants
<1>4. Same(f, w) /\ w.err = "ok"
  <2>1. "ok" \in {"ok", "nospc"} /\ Shape(f)
    BY <1>1
  <2> QED
    BY <1>2, <1>3, <2>1, SameFile, Zenon
<1> QED
  BY <1>4 DEF Ok, Same

\* Contents is that of the file,
LEMMA ContentsIs == Contents = ContentsOf(f)
BY DEF Contents, ContentsOf

\* also after a step.
LEMMA ContentsIsNext == Contents' = ContentsOf(f')
BY DEF Contents, ContentsOf, lfs_file_rawsize, Is, Slice

\* A call returns: what is left of the file, and what the abstract one sees.
LEMMA ReturnedFile ==
  ASSUME NEW w, Shape(w), NEW data, Answer(w, data)
  PROVE  /\ Shape(f') /\ ContentsOf(f') = ContentsOf(w) /\ f'.pos = w.pos /\ f'.err = "ok"
         /\ Is(f', "ERRED") <=> Is(w, "ERRED")
         /\ Is(f', "DIRTY") <=> Is(w, "DIRTY")
         /\ Is(f', "WRITING") <=> Is(w, "WRITING")
         /\ Contents' = ContentsOf(w)
         /\ answer' = [res |-> w.err, data |-> IF Ok(w) THEN data ELSE <<>>]
<1>1. f' = [w EXCEPT !.room = 0, !.err = "ok"]
  BY DEF Answer
<1>2. 0 \in Nat /\ "ok" \in {"ok", "nospc"}
  OBVIOUS
<1>3. Same(w, f') /\ f'.err = "ok"
  BY <1>1, <1>2, SameFile, Zenon
<1>4. /\ Shape(f') /\ ContentsOf(f') = ContentsOf(w) /\ f'.flags = w.flags /\ f'.pos = w.pos
  BY <1>3 DEF Same
<1>5. Contents' = ContentsOf(w)
  BY <1>4, ContentsIsNext
<1> QED
  BY <1>3, <1>4, <1>5, FlagsTell DEF Answer

\* The same for a call that leaves the storage alone: the invariant holds on.
LEMMA Returned ==
  ASSUME IInv, NEW w, Settled(w), NEW data, Answer(w, data), UNCHANGED disk
  PROVE  /\ IInv' /\ Contents' = ContentsOf(w) /\ f'.pos = w.pos
         /\ Is(f', "ERRED") <=> Is(w, "ERRED")
         /\ answer' = [res |-> w.err, data |-> IF Ok(w) THEN data ELSE <<>>]
<1>1. Shape(w)
  BY DEF Settled
<1>2. /\ Shape(f') /\ ContentsOf(f') = ContentsOf(w) /\ f'.pos = w.pos /\ f'.err = "ok"
      /\ Is(f', "ERRED") <=> Is(w, "ERRED")
      /\ Is(f', "DIRTY") <=> Is(w, "DIRTY")
      /\ Is(f', "WRITING") <=> Is(w, "WRITING")
      /\ Contents' = ContentsOf(w)
      /\ answer' = [res |-> w.err, data |-> IF Ok(w) THEN data ELSE <<>>]
  BY <1>1, ReturnedFile
<1>3. /\ Shape(f') /\ f'.pos <= MaxSize /\ Len(ContentsOf(f')) <= MaxSize
      /\ Is(f', "DIRTY") \/ Is(f', "WRITING") \/ ContentsOf(f') = disk'.data
  BY <1>2 DEF Settled
<1>4. disk' \in DiskRecord /\ (disk'.kind = "inline" => Len(disk'.data) <= InlineUpTo)
      /\ Len(disk'.data) <= MaxSize
  BY DEF IInv, DiskFits
<1>5. IInv'
  BY <1>2, <1>3, <1>4 DEF IInv, DiskFits, Settled
<1> QED
  BY <1>2, <1>5

-----------------------------------------------------------------------------
(* The abstract file's operators *)

\* The operators of AtomicFile are those of LfsFile.
LEMMA AtomicSlice == ASSUME NEW c, NEW from, NEW to
  PROVE  Atomic!Slice(c, from, to) = Slice(c, from, to)
BY DEF Atomic!Slice, Slice, Atomic!Min, Min

\* The same zeros.
LEMMA AtomicZeros == ASSUME NEW n PROVE Atomic!Zeros(n) = Zeros(n)
BY DEF Atomic!Zeros, Zeros

\* The same extremes.
LEMMA AtomicMaxMin == ASSUME NEW a \in Int, NEW b \in Int
  PROVE  /\ Atomic!Max({a, b}) = IF a >= b THEN a ELSE b
         /\ Atomic!Min({a, b}) = IF a <= b THEN a ELSE b
BY DEF Atomic!Max, Atomic!Min

\* What a read gets does not move the position behind the end.
LEMMA SliceLength == ASSUME NEW c \in Seq(Byte), NEW p \in Nat, NEW n \in Nat
  PROVE  /\ Len(Slice(c, p + 1, p + n)) \in Nat
         /\ p + Len(Slice(c, p + 1, p + n)) <= p \/ p + Len(Slice(c, p + 1, p + n)) <= Len(c)
<1> DEFINE m == Min({p + n, Len(c)})
<1>1. Len(c) \in Nat /\ p + n \in Nat
  OBVIOUS
<1>2. m = IF p + n <= Len(c) THEN p + n ELSE Len(c)
  BY <1>1, MinOfTwo
<1>3. Slice(c, p + 1, p + n) = SubSeq(c, p + 1, m)
  BY DEF Slice
<1> HIDE DEF m
<1>4. m \in Nat /\ m <= Len(c)
  BY <1>1, <1>2
<1>5. Len(SubSeq(c, p + 1, m)) = IF p + 1 <= m THEN m - p ELSE 0
  BY <1>4
<1> QED
  BY <1>1, <1>3, <1>4, <1>5

\* An abstract write inside the file puts the bytes there.
LEMMA OverwriteInside == ASSUME NEW c \in Seq(Byte), NEW d \in Seq(Byte), NEW p \in 0..Len(c)
  PROVE  Atomic!Overwrite(c, p, d) = Put(c, p, d)
<1> DEFINE z == Atomic!Zeros(Atomic!Max({0, p - Len(c)}))
           base == c \o z
<1>1. Len(c) \in Nat /\ p \in Nat /\ p - Len(c) \in Int /\ p - Len(c) <= 0
  OBVIOUS
<1>2. Atomic!Max({0, p - Len(c)}) = 0
  BY <1>1, AtomicMaxMin
<1>3. z = <<>>
  <2>1. z = Zeros(0)
    BY <1>2, AtomicZeros
  <2>2. Zeros(0) \in Seq(Byte) /\ Len(Zeros(0)) = 0
    BY ZerosProperties
  <2> QED
    BY <2>1, <2>2, EmptySeq
<1>4. Atomic!Overwrite(c, p, d) = SubSeq(base, 1, p) \o d \o SubSeq(base, p + Len(d) + 1, Len(base))
  BY DEF Atomic!Overwrite
<1> HIDE DEF z
<1>5. base = c
  BY <1>3, ConcatEmptySeq
<1> QED
  BY <1>4, <1>5 DEF Put

\* To put bytes at the end is to add them.
LEMMA PutAtEnd == ASSUME NEW c \in Seq(Byte), NEW e \in Seq(Byte)
  PROVE  Put(c, Len(c), e) = c \o e
<1>1. Len(c) \in Nat /\ Len(e) \in Nat /\ Len(c) \in 0..Len(c)
  OBVIOUS
<1>2. /\ Put(c, Len(c), e) = Over(SubSeq(c, 1, Len(c)) \o e, c)
      /\ SubSeq(c, 1, Len(c)) \o e \in Seq(Byte)
      /\ Len(SubSeq(c, 1, Len(c)) \o e) = Len(c) + Len(e)
  BY <1>1, PutIsOver
<1>3. SubSeq(c, 1, Len(c)) = c
  BY AllOf
<1>4. c \o e \in Seq(Byte) /\ Len(c \o e) = Len(c) + Len(e)
  BY <1>2, <1>3
<1>5. Len(c) <= Len(c \o e)
  BY <1>1, <1>4
<1> QED
  BY <1>2, <1>3, <1>4, <1>5, OverCovers

\* A write at p, a gap filled, is one at the end or in front of it.
LEMMA OverwriteIsPut ==
  ASSUME NEW c \in Seq(Byte), NEW d \in Seq(Byte), NEW p \in Nat,
         NEW q, q = IF p <= Len(c) THEN p ELSE Len(c)
  PROVE  Atomic!Overwrite(c, p, d) = Put(c, q, Zeros(p - q) \o d)
<1>1. Len(c) \in Nat /\ Len(d) \in Nat
  OBVIOUS
<1>2. CASE p <= Len(c)
  <2>1. q = p /\ p - q = 0 /\ p \in 0..Len(c)
    BY <1>1, <1>2
  <2>2. Zeros(0) = <<>>
    <3>1. Zeros(0) \in Seq(Byte) /\ Len(Zeros(0)) = 0
      BY ZerosProperties
    <3> QED
      BY <3>1, EmptySeq
  <2>3. Zeros(p - q) \o d = d
    BY <2>1, <2>2, ConcatEmptySeq
  <2> QED
    BY <2>1, <2>3, OverwriteInside
<1>3. CASE p > Len(c)
  <2> DEFINE z == Zeros(p - Len(c))
             base == c \o z
             e == z \o d
  <2>1. q = Len(c) /\ p - Len(c) \in Nat /\ ~(p <= Len(c))
    BY <1>1, <1>3
  <2>2. z \in Seq(Byte) /\ Len(z) = p - Len(c)
    BY <2>1, ZerosProperties
  <2>3. Atomic!Max({0, p - Len(c)}) = p - Len(c)
    <3>1. 0 \in Int /\ p - Len(c) \in Int /\ p - Len(c) > 0
      BY <1>1, <1>3
    <3> QED
      BY <3>1, AtomicMaxMin
  <2>4. Atomic!Overwrite(c, p, d) = SubSeq(base, 1, p) \o d \o SubSeq(base, p + Len(d) + 1, Len(base))
    BY <2>3, AtomicZeros DEF Atomic!Overwrite
  <2> HIDE DEF z
  <2>5. base \in Seq(Byte) /\ Len(base) = p
    <3>1. base \in Seq(Byte) /\ Len(base) = Len(c) + Len(z)
      BY <2>2, ConcatProperties
    <3> QED
      BY <1>1, <2>1, <2>2, <3>1
  <2>6. e \in Seq(Byte) /\ Len(e) = Len(z) + Len(d)
    BY <2>2, ConcatProperties
  <2>7. base \o d = c \o e
    BY <2>2, ConcatAssociative
  <2> HIDE DEF base, e
  <2>8. SubSeq(base, 1, p) = base
    BY <2>5, AllOf
  <2>9. SubSeq(base, p + Len(d) + 1, p) = <<>>
    BY <1>1, <2>5, SubSeqEmpty
  <2>10. base \o d \in Seq(Byte)
    BY <2>5, ConcatProperties
  <2>11. (base \o d) \o <<>> = base \o d
    BY <2>10, ConcatEmptySeq
  <2>12. Atomic!Overwrite(c, p, d) = base \o d
    BY <2>4, <2>5, <2>8, <2>9, <2>11
  <2>13. Put(c, Len(c), e) = c \o e
    BY <2>6, PutAtEnd
  <2> QED
    BY <2>1, <2>7, <2>12, <2>13 DEF e, z
<1> QED
  BY <1>1, <1>2, <1>3

\* A part of the bytes, from the front.
LEMMA PartlyIsPut ==
  ASSUME NEW c \in Seq(Byte), NEW d \in Seq(Byte), NEW p \in Nat,
         NEW q, q = (IF p <= Len(c) THEN p ELSE Len(c)),
         NEW k \in 0..Len(Zeros(p - q) \o d)
  PROVE  Atomic!Partly(c, p, d, k) = Put(c, q, SubSeq(Zeros(p - q) \o d, 1, k))
<1> DEFINE a == Zeros(p - q) \o d
<1>1. Len(c) \in Nat
  OBVIOUS
<1>2. q \in 0..Len(c) /\ p - q \in Nat
  BY <1>1
<1>3. a \in Seq(Byte)
  <2>1. Zeros(p - q) \in Seq(Byte)
    BY <1>2, ZerosProperties
  <2> QED
    BY <2>1, ConcatProperties
<1>4. Atomic!Min({p, Len(c)}) = q
  <2>1. p \in Int /\ Len(c) \in Int
    BY <1>1
  <2>2. Atomic!Min({p, Len(c)}) = IF p <= Len(c) THEN p ELSE Len(c)
    BY <2>1, AtomicMaxMin
  <2> QED
    BY <2>2
<1>5. Atomic!Partly(c, p, d, k) = Atomic!Overwrite(c, q, Atomic!Slice(a, 1, k))
  BY <1>4, AtomicZeros, Zenon DEF Atomic!Partly
<1>6. k \in 0..Len(a)
  OBVIOUS
<1> HIDE DEF a
<1>7. Atomic!Slice(a, 1, k) = SubSeq(a, 1, k)
  <2>1. Min({k, Len(a)}) = k
    <3>1. Len(a) \in Nat
      BY <1>3
    <3> QED
      BY <1>6, <3>1, MinOfTwo
  <2> QED
    BY <2>1, AtomicSlice DEF Slice
<1>8. SubSeq(a, 1, k) \in Seq(Byte)
  BY <1>3, <1>6, FrontProperties
<1>9. Atomic!Overwrite(c, q, SubSeq(a, 1, k)) = Put(c, q, SubSeq(a, 1, k))
  BY <1>2, <1>8, OverwriteInside
<1> QED
  BY <1>5, <1>7, <1>9 DEF a

-----------------------------------------------------------------------------
(* Every call keeps the invariant and is one of the abstract file's *)

\* Without space: nothing has changed but the position.
LEMMA FailedCall ==
  ASSUME IInv, NEW w, Settled(w), NEW data, Answer(w, data), UNCHANGED disk,
         ContentsOf(w) = ContentsOf(f), Is(w, "ERRED"), w.err = "nospc"
  PROVE  IInv' /\ Atomic!Fail
<1>1. /\ IInv' /\ Contents' = ContentsOf(w) /\ f'.pos = w.pos
      /\ Is(f', "ERRED") <=> Is(w, "ERRED")
      /\ answer' = [res |-> w.err, data |-> IF Ok(w) THEN data ELSE <<>>]
  BY Returned
<1>2. answer' = [res |-> "nospc", data |-> <<>>]
  BY <1>1 DEF Ok
<1>3. w.pos \in 0..MaxSize
  <2>1. w.pos \in Nat /\ w.pos <= MaxSize
    BY FileRecordFields DEF Settled, Shape
  <2> QED
    BY <2>1, Constants
<1>4. Contents' = Contents
  BY <1>1, ContentsIs
<1>5. Is(f, "ERRED")' = TRUE
  BY <1>1 DEF Is
<1>6. f'.pos \in 0..MaxSize /\ UNCHANGED <<Contents, disk.data>>
  BY <1>1, <1>3, <1>4
<1>7. Is(f, "ERRED")' \in {Is(f, "ERRED"), TRUE}
  BY <1>5, Zenon
<1>8. answer' = [Atomic!Done EXCEPT !.res = "nospc"]
  BY <1>2 DEF Atomic!Done
<1> QED
  BY <1>1, <1>6, <1>7, <1>8, Zenon DEF Atomic!Fail

\* A seek is an abstract seek, or it fails.
LEMMA SeekSteps == ASSUME IInv, NEW r \in Rooms, NEW n \in 0..MaxSize, Seek(n, r)
  PROVE  IInv' /\ (Atomic!Seek(n) \/ Atomic!Fail)
<1> DEFINE g == Begin(r)
<1>1. /\ Shape(g) /\ Ok(g) /\ ContentsOf(g) = ContentsOf(f)
      /\ g.flags = f.flags /\ g.pos = f.pos /\ g.size = f.size
      /\ lfs_file_rawsize(g) = lfs_file_rawsize(f)
  BY BeginProperties
<1>2. PICK w : w = lfs_file_rawseek(g, n) /\ Answer(w, <<>>) /\ UNCHANGED disk
  BY DEF Seek, Return
<1> HIDE DEF g
<1>3. n \in Nat /\ n <= MaxSize /\ MaxSize \in Nat
  BY Constants
<1>4. Sought(g, n, w)
  BY <1>1, <1>2, <1>3, SeekMoves
<1>5. Settled(f)
  BY DEF IInv
<1>6. Len(ContentsOf(f)) = lfs_file_rawsize(f) /\ lfs_file_rawsize(f) \in Nat
  BY <1>5, ContentsProperties DEF Settled
<1>7. /\ Is(g, "ERRED") <=> Is(f, "ERRED")
      /\ Is(g, "DIRTY") <=> Is(f, "DIRTY")
      /\ Is(g, "WRITING") <=> Is(f, "WRITING")
  BY <1>1, FlagsTell
<1>8. Shape(w) /\ ContentsOf(w) = ContentsOf(f) /\ w.pos \in Nat
  BY <1>1, <1>4, FileRecordFields DEF Sought, Shape
<1>9. w.pos <= MaxSize
  <2>1. CASE Ok(w)
    BY <1>3, <1>4, <2>1 DEF Sought
  <2>2. CASE ~Ok(w)
    <3>1. w.pos <= lfs_file_rawsize(f)
      BY <1>1, <1>4, <2>2 DEF Sought
    <3>2. Len(ContentsOf(f)) <= MaxSize
      BY <1>5 DEF Settled
    <3> QED
      BY <1>3, <1>6, <1>8, <3>1, <3>2
  <2> QED
    BY <2>1, <2>2
<1>10. Settled(w)
  BY <1>4, <1>5, <1>7, <1>8, <1>9 DEF Settled, Sought
<1>11. CASE ~Ok(w)
  <2>1. Is(w, "ERRED") /\ w.err = "nospc"
    BY <1>4, <1>11 DEF Sought
  <2> QED
    BY <1>2, <1>8, <1>10, <2>1, FailedCall
<1>12. CASE Ok(w)
  <2>1. /\ IInv' /\ Contents' = ContentsOf(w) /\ f'.pos = w.pos
        /\ Is(f', "ERRED") <=> Is(w, "ERRED")
        /\ answer' = [res |-> w.err, data |-> IF Ok(w) THEN <<>> ELSE <<>>]
    BY <1>2, <1>10, Returned
  <2>2. answer' = [res |-> "ok", data |-> <<>>]
    BY <1>12, <2>1 DEF Ok
  <2>3. f'.pos = n
    BY <1>4, <1>12, <2>1 DEF Sought
  <2>4. Contents' = Contents
    BY <1>8, <2>1, ContentsIs
  <2>5. Is(f, "ERRED")' = Is(f, "ERRED")
    BY <1>4, <1>7, <1>12, <2>1 DEF Sought, Is
  <2> QED
    BY <1>2, <2>1, <2>2, <2>3, <2>4, <2>5 DEF Atomic!Seek, Atomic!Done
<1> QED
  BY <1>11, <1>12

\* A read gives the bytes that were written, or it fails.
LEMMA ReadSteps == ASSUME IInv, NEW r \in Rooms, NEW n \in Sizes, Read(n, r)
  PROVE  IInv' /\ (Atomic!Read(n) \/ Atomic!Fail)
<1> DEFINE b == Begin(r)
<1>1. /\ Shape(b) /\ Ok(b) /\ ContentsOf(b) = ContentsOf(f)
      /\ b.flags = f.flags /\ b.pos = f.pos /\ b.size = f.size
      /\ lfs_file_rawsize(b) = lfs_file_rawsize(f)
  BY BeginProperties
<1>2. PICK g : /\ g = lfs_file_flush(b) /\ UNCHANGED disk
               /\ Got(g, Slice(Bytes(g), g.pos + 1, g.pos + n))
  BY DEF Read
<1> HIDE DEF b
<1>3. Flushed(b, g)
  BY <1>1, <1>2, FlushKeeps
<1>4. Settled(f) /\ f.pos \in Nat /\ MaxSize \in Nat /\ n \in Nat
  BY FileRecordFields, Constants DEF IInv, Settled, Shape
<1>5. /\ Len(ContentsOf(f)) = lfs_file_rawsize(f) /\ lfs_file_rawsize(f) \in Nat
      /\ ContentsOf(f) \in Seq(Byte) /\ Len(ContentsOf(f)) <= MaxSize
  BY <1>4, ContentsProperties DEF Settled
<1>6. /\ Is(b, "ERRED") <=> Is(f, "ERRED")
      /\ Is(b, "DIRTY") <=> Is(f, "DIRTY")
      /\ Is(b, "WRITING") <=> Is(f, "WRITING")
  BY <1>1, FlagsTell
<1>7. Shape(g) /\ ContentsOf(g) = ContentsOf(f) /\ g.pos \in Nat
  BY <1>1, <1>3, FileRecordFields DEF Flushed, Shape
<1>8. Is(g, "DIRTY") \/ Is(g, "WRITING") \/ ContentsOf(g) = disk.data
  BY <1>3, <1>4, <1>6, <1>7 DEF Flushed, Settled
<1>9. CASE ~Ok(g)
  <2>1. Is(g, "ERRED") /\ g.err = "nospc" /\ g.pos <= lfs_file_rawsize(f)
    BY <1>1, <1>3, <1>9 DEF Flushed
  <2>2. g.pos <= MaxSize
    BY <1>4, <1>5, <1>7, <2>1
  <2>3. Settled(g)
    BY <1>5, <1>7, <1>8, <2>2 DEF Settled
  <2>4. Answer(g, Slice(Bytes(g), g.pos + 1, g.pos + n))
    BY <1>2, <1>9 DEF Got
  <2> QED
    BY <1>2, <1>7, <2>1, <2>3, <2>4, FailedCall
<1>10. CASE Ok(g)
  <2> DEFINE data == Slice(ContentsOf(f), f.pos + 1, f.pos + n)
             q == f.pos + Len(data)
  <2>1. g.pos = f.pos /\ ~Is(g, "WRITING") /\ (Is(g, "ERRED") <=> Is(f, "ERRED"))
    BY <1>1, <1>3, <1>6, <1>10 DEF Flushed
  <2>2. Bytes(g) = ContentsOf(f)
    BY <1>7, <2>1, BytesAreContents
  <2>3. PICK w : w = [g EXCEPT !.pos = g.pos + Len(data)] /\ Answer(w, data)
    <3>1. Got(g, data)
      BY <1>2, <2>1, <2>2
    <3> HIDE DEF data
    <3>2. [g EXCEPT !.pos = @ + Len(data)] = [g EXCEPT !.pos = g.pos + Len(data)]
      BY <1>7 DEF Shape, FileRecord
    <3> QED
      BY <1>10, <3>1, <3>2 DEF Got
  <2>4. Len(data) \in Nat /\ (q <= f.pos \/ q <= Len(ContentsOf(f)))
    BY <1>4, <1>5, SliceLength
  <2> HIDE DEF data
  <2>5. q \in Nat /\ q <= MaxSize
    <3>1. f.pos <= MaxSize
      BY <1>4 DEF Settled
    <3> QED
      BY <1>4, <1>5, <2>4, <3>1
  <2>6. w = [g EXCEPT !.pos = q]
    BY <2>1, <2>3
  <2> HIDE DEF q
  <2>7. /\ Shape(w) /\ ContentsOf(w) = ContentsOf(g) /\ w.pos = q
        /\ w.flags = g.flags /\ w.err = g.err
    BY <1>7, <2>1, <2>5, <2>6, Moved
  <2>8. /\ Is(w, "ERRED") <=> Is(g, "ERRED")
        /\ Is(w, "DIRTY") <=> Is(g, "DIRTY")
        /\ Is(w, "WRITING") <=> Is(g, "WRITING")
    BY <2>7, FlagsTell
  <2>9. Settled(w)
    BY <1>5, <1>7, <1>8, <2>5, <2>7, <2>8 DEF Settled
  <2>10. /\ IInv' /\ Contents' = ContentsOf(w) /\ f'.pos = w.pos
         /\ Is(f', "ERRED") <=> Is(w, "ERRED")
         /\ answer' = [res |-> w.err, data |-> IF Ok(w) THEN data ELSE <<>>]
    BY <1>2, <2>3, <2>9, Returned
  <2>11. answer' = [res |-> "ok", data |-> data]
    BY <1>10, <2>7, <2>10 DEF Ok
  <2>12. Contents' = Contents
    BY <1>7, <2>7, <2>10, ContentsIs
  <2>13. Is(f, "ERRED")' = Is(f, "ERRED")
    BY <2>1, <2>8, <2>10 DEF Is
  <2>14. f'.pos = f.pos + Len(data)
    BY <2>7, <2>10 DEF q
  <2>15. Atomic!Slice(Contents, f.pos + 1, f.pos + n) = data
    BY AtomicSlice, ContentsIs DEF data
  <2>16. answer'.data = data /\ disk'.data = disk.data
    BY <1>2, <2>11
  <2>17. answer' = [Atomic!Done EXCEPT !.data = data]
    BY <2>11 DEF Atomic!Done
  <2> QED
    BY <2>10, <2>12, <2>13, <2>14, <2>15, <2>16, <2>17 DEF Atomic!Read
<1> QED
  BY <1>9, <1>10

\* An appending write goes to the end, any other to the position.
LEMMA WritePosIs == ASSUME IInv
  PROVE  WritePos(f) \in {f.pos, Len(Contents)}
<1>1. CASE Appending /\ f.pos < f.size
  <2>1. Shape(f) /\ f.pos \in Nat /\ f.size \in Nat
    BY FileRecordFields DEF IInv, Settled, Shape
  <2>2. ~Is(f, "WRITING")
    BY <1>1, <2>1 DEF Shape
  <2>3. Len(ContentsOf(f)) = f.size
    BY <2>1, <2>2, BytesAreContents
  <2> QED
    BY <1>1, <2>3, ContentsIs DEF WritePos
<1>2. CASE ~(Appending /\ f.pos < f.size)
  BY <1>2 DEF WritePos
<1> QED
  BY <1>1, <1>2

\* Careful, or one bound, keeps writes away from the middle of a file that is
\* too long for a write to leave inline.
LEMMA WriteCovers ==
  ASSUME IInv, OneBound, NEW n \in Nat, Careful => CarefulWrite(n)
  PROVE  Covers(f, WritePos(f), n)
<1>1. CASE Careful
  BY <1>1 DEF CarefulWrite, Covers
<1>2. CASE InlineUpTo <= OutlineAbove
  <2>1. Shape(f) /\ f.size \in Nat /\ Len(f.buffer) \in Nat
    BY FileRecordFields DEF IInv, Settled, Shape
  <2>2. Is(f, "INLINE") => f.size <= Len(f.buffer) /\ Len(f.buffer) <= InlineUpTo
    BY <2>1 DEF Shape, InlineShape
  <2>3. Is(f, "INLINE") => f.size <= OutlineAbove
    BY <1>2, <2>1, <2>2, Constants
  <2>4. Is(f, "INLINE") => ~(f.size > OutlineAbove)
    BY <2>1, <2>3, Constants
  <2> QED
    BY <2>4 DEF Covers
<1> QED
  BY <1>1, <1>2 DEF OneBound

\* A refused call changes the position or nothing, and the file is as settled
\* as before: what moves to the end is not being written.
LEMMA RefusedSteps ==
  ASSUME IInv, NEW p, p = f.pos \/ p = WritePos(f), NEW res, Refuse(p, res)
  PROVE  IInv' /\ Atomic!Refuse(p, res)
<1>1. Settled(f) /\ f.pos \in Nat /\ f.pos <= MaxSize
  BY FileRecordFields DEF IInv, Settled, Shape
<1>2. p \in Nat /\ (Is(f, "WRITING") => p = f.pos)
  BY <1>1, WritePosProperties DEF Settled
<1>3. p <= MaxSize
  <2>1. Len(Contents) <= MaxSize
    BY <1>1, ContentsIs DEF Settled
  <2>2. p = f.pos \/ p = Len(Contents)
    BY WritePosIs
  <2> QED
    BY <1>1, <2>1, <2>2
<1>4. f' = [f EXCEPT !.pos = p] /\ answer' = [res |-> res, data |-> <<>>] /\ disk' = disk
  BY DEF Refuse
<1>5. /\ Shape(f') /\ ContentsOf(f') = ContentsOf(f) /\ f'.pos = p
      /\ f'.flags = f.flags /\ f'.err = f.err
  BY <1>1, <1>2, <1>4, Moved DEF Settled
<1>6. /\ Is(f', "ERRED") <=> Is(f, "ERRED")
      /\ Is(f', "DIRTY") <=> Is(f, "DIRTY")
      /\ Is(f', "WRITING") <=> Is(f, "WRITING")
  BY <1>5, FlagsTell
<1>7. IInv'
  BY <1>1, <1>3, <1>4, <1>5, <1>6 DEF IInv, DiskFits, Settled
<1>8. Contents' = Contents
  BY <1>5, ContentsIs, ContentsIsNext
<1>9. Is(f, "ERRED")' = Is(f, "ERRED")
  BY <1>5 DEF Is
<1>10. answer' = [Atomic!Done EXCEPT !.res = res]
  BY <1>4 DEF Atomic!Done
<1> QED
  BY <1>4, <1>5, <1>7, <1>8, <1>9, <1>10, Zenon DEF Atomic!Refuse

\* What a write makes of the file is what the abstract one makes of its bytes.
WroteAsAbstract(p, d, w) ==
  /\ Settled(w)
  /\ \E k \in 0..MaxSize : ContentsOf(w) = Atomic!Partly(Contents, p, d, k)
  /\ Ok(w) => ContentsOf(w) = Atomic!Overwrite(Contents, p, d) /\ w.pos = p + Len(d)

\* What a write leaves is what an abstract write leaves.
LEMMA WriteIsAbstract ==
  ASSUME IInv, NEW b, Shape(b), ContentsOf(b) = ContentsOf(f), b.flags = f.flags,
         NEW p \in Nat, NEW d \in Seq(Byte), p + Len(d) <= MaxSize,
         NEW w, WroteAt(b, p, d, w)
  PROVE  WroteAsAbstract(p, d, w)
<1> DEFINE c == ContentsOf(f)
           q == IF p <= Len(c) THEN p ELSE Len(c)
           a == Zeros(p - q) \o d
<1>1. Settled(f)
  BY DEF IInv
<1>2. c \in Seq(Byte) /\ Len(c) <= MaxSize /\ Len(c) \in Nat
  <2>1. c \in Seq(Byte)
    BY <1>1, ContentsProperties DEF Settled
  <2> QED
    BY <1>1, <2>1 DEF Settled
<1>3. From(b, p) = q /\ Filled(b, p, d) = a
  BY DEF From, Filled
<1>4. q \in 0..Len(c) /\ a \in Seq(Byte) /\ q + Len(a) = p + Len(d)
  <2>1. /\ From(b, p) \in 0..Len(ContentsOf(b)) /\ Filled(b, p, d) \in Seq(Byte)
        /\ From(b, p) + Len(Filled(b, p, d)) = p + Len(d)
    BY FilledProperties
  <2> HIDE DEF a, q
  <2> QED
    BY <1>3, <2>1
<1>5. ContentsOf(b) = c /\ Contents = c
  BY ContentsIs
<1> HIDE DEF c
<1>6. q = IF p <= Len(c) THEN p ELSE Len(c)
  OBVIOUS
<1> HIDE DEF q
<1>7. a = Zeros(p - q) \o d
  OBVIOUS
<1> HIDE DEF a
<1>8. PICK k \in 0..Len(a) : /\ ContentsOf(w) = Put(c, q, SubSeq(a, 1, k)) /\ w.pos = q + k
                             /\ (Ok(w) => k = Len(a))
  BY <1>3, <1>5 DEF WroteAt
<1>9. SubSeq(a, 1, k) \in Seq(Byte) /\ Len(SubSeq(a, 1, k)) = k
  BY <1>4, FrontProperties
<1>10. Len(a) \in Nat /\ Len(d) \in Nat /\ k \in Nat /\ k <= Len(a) /\ q \in Nat
  BY <1>2, <1>4
<1>11. q + k <= MaxSize /\ k \in 0..MaxSize
  BY <1>4, <1>10, Constants
<1>12. Len(ContentsOf(w)) <= MaxSize
  <2> DEFINE e == SubSeq(a, 1, k)
  <2>1. e \in Seq(Byte) /\ Len(e) = k
    BY <1>9
  <2>2. ContentsOf(w) = Put(c, q, e)
    BY <1>8
  <2> HIDE DEF e
  <2>3. Len(Put(c, q, e)) = IF q + Len(e) >= Len(c) THEN q + Len(e) ELSE Len(c)
    BY <1>2, <1>4, <2>1, PutProperties
  <2>4. Len(Put(c, q, e)) = IF q + k >= Len(c) THEN q + k ELSE Len(c)
    BY <2>1, <2>3
  <2> QED
    BY <1>2, <1>11, <2>2, <2>4
<1>13. Settled(w)
  <2>1. /\ Is(b, "DIRTY") <=> Is(f, "DIRTY")
        /\ Is(b, "WRITING") <=> Is(f, "WRITING")
    BY FlagsTell
  <2>2. Is(w, "DIRTY") \/ Is(w, "WRITING") \/ ContentsOf(w) = disk.data
    BY <1>1, <2>1 DEF WroteAt, Settled
  <2>3. w.pos <= MaxSize /\ Shape(w)
    BY <1>8, <1>11 DEF WroteAt
  <2> QED
    BY <1>12, <2>2, <2>3 DEF Settled
<1>14. ContentsOf(w) = Atomic!Partly(Contents, p, d, k)
  <2>1. k \in 0..Len(Zeros(p - q) \o d)
    BY <1>7
  <2>2. Atomic!Partly(c, p, d, k) = Put(c, q, SubSeq(Zeros(p - q) \o d, 1, k))
    BY <1>2, <1>6, <2>1, PartlyIsPut
  <2> QED
    BY <1>5, <1>7, <1>8, <2>2
<1>15. ASSUME Ok(w)
       PROVE  ContentsOf(w) = Atomic!Overwrite(Contents, p, d) /\ w.pos = p + Len(d)
  <2>1. k = Len(a)
    BY <1>8, <1>15
  <2>2. SubSeq(a, 1, k) = a
    BY <1>4, <2>1, AllOf
  <2>3. Atomic!Overwrite(c, p, d) = Put(c, q, Zeros(p - q) \o d)
    BY <1>2, <1>6, OverwriteIsPut
  <2> QED
    BY <1>4, <1>5, <1>7, <1>8, <2>1, <2>2, <2>3
<1> QED
  BY <1>11, <1>13, <1>14, <1>15 DEF WroteAsAbstract

\* A write is an abstract write, or the front of one.
LEMMA WriteSteps ==
  ASSUME IInv, OneBound, NEW r \in Rooms, NEW n \in Sizes, NEW v \in Values, Write(n, v, r),
         NEW d, d = [i \in 1..n |-> v], NEW p, p = WritePos(f)
  PROVE  IInv' /\ (Atomic!Write(p, d) \/ Atomic!WritePartly(p, d))
<1> DEFINE b == Begin(r)
<1>1. /\ Shape(b) /\ Ok(b) /\ ContentsOf(b) = ContentsOf(f)
      /\ b.flags = f.flags /\ b.pos = f.pos /\ b.size = f.size
  BY BeginProperties
<1>2. PICK w : w = lfs_file_rawwrite(b, d) /\ Answer(w, <<>>) /\ UNCHANGED disk
  BY DEF Write, Return
<1> HIDE DEF b
<1>3. n \in Nat
  BY Constants
<1>4. d \in Seq(Byte) /\ Len(d) = n
  BY <1>3 DEF Byte
<1>5. WritePos(b) = p
  BY <1>1 DEF WritePos
<1>6. p + n <= MaxSize /\ (Careful => CarefulWrite(n))
  BY DEF Write
<1>7. p \in Nat
  BY <1>1, <1>5, WritePosProperties
<1>8. Covers(b, WritePos(b), Len(d))
  <2>1. Covers(f, p, n)
    BY <1>3, <1>6, WriteCovers
  <2>2. Is(b, "INLINE") <=> Is(f, "INLINE")
    BY <1>1, FlagsTell
  <2> QED
    BY <1>1, <1>4, <1>5, <2>1, <2>2 DEF Covers
<1>9. WroteAt(b, p, d, w)
  BY <1>1, <1>2, <1>4, <1>5, <1>8, RawWrite
<1>10. /\ Settled(w)
       /\ \E k \in 0..MaxSize : ContentsOf(w) = Atomic!Partly(Contents, p, d, k)
       /\ Ok(w) => ContentsOf(w) = Atomic!Overwrite(Contents, p, d) /\ w.pos = p + Len(d)
  <2>1. p + Len(d) <= MaxSize
    BY <1>4, <1>6
  <2>2. WroteAsAbstract(p, d, w)
    BY <1>1, <1>4, <1>7, <1>9, <2>1, WriteIsAbstract
  <2> QED
    BY <2>2 DEF WroteAsAbstract
<1>11. /\ IInv' /\ Contents' = ContentsOf(w) /\ f'.pos = w.pos
       /\ Is(f', "ERRED") <=> Is(w, "ERRED")
       /\ answer' = [res |-> w.err, data |-> IF Ok(w) THEN <<>> ELSE <<>>]
  BY <1>2, <1>10, Returned
<1>12. CASE Ok(w)
  <2>1. answer' = Atomic!Done
    BY <1>11, <1>12 DEF Atomic!Done, Ok
  <2>2. Is(f, "ERRED")' = FALSE
    BY <1>9, <1>11, <1>12 DEF WroteAt, Is
  <2>3. Contents' = Atomic!Overwrite(Contents, p, d) /\ f'.pos = p + Len(d) /\ disk'.data = disk.data
    BY <1>2, <1>10, <1>11, <1>12
  <2>4. Atomic!Write(p, d)
    BY <1>4, <1>6, <2>1, <2>2, <2>3, Zenon DEF Atomic!Write
  <2> QED
    BY <1>11, <2>4
<1>13. CASE ~Ok(w)
  <2>1. answer' = [Atomic!Done EXCEPT !.res = "nospc"]
    <3>1. w.err = "nospc"
      BY <1>9, <1>13 DEF WroteAt
    <3> QED
      BY <1>11, <3>1 DEF Atomic!Done
  <2>2. Is(f, "ERRED")' = TRUE
    BY <1>9, <1>11, <1>13 DEF WroteAt, Is
  <2>3. (\E k \in 0..MaxSize : Contents' = Atomic!Partly(Contents, p, d, k)) /\ disk'.data = disk.data
    BY <1>2, <1>10, <1>11
  <2>4. f'.pos \in 0..MaxSize
    <3>1. w.pos \in Nat /\ w.pos <= MaxSize
      BY <1>10, FileRecordFields DEF Settled, Shape
    <3> QED
      BY <1>11, <3>1, Constants
  <2>5. Atomic!WritePartly(p, d)
    BY <2>1, <2>2, <2>3, <2>4, Zenon DEF Atomic!WritePartly
  <2> QED
    BY <1>11, <2>5
<1> QED
  BY <1>12, <1>13

\* The position goes back to where it was before the truncation.
LEMMA SeekBack ==
  ASSUME IInv, NEW x, Settled(x), Ok(x), NEW w, w = lfs_file_rawseek(x, f.pos)
  PROVE  /\ Settled(w) /\ ContentsOf(w) = ContentsOf(x)
         /\ Ok(w) => w.pos = f.pos /\ (Is(w, "ERRED") <=> Is(x, "ERRED"))
         /\ ~Ok(w) => Is(w, "ERRED") /\ w.err = "nospc" /\ Is(x, "WRITING")
<1>1. Shape(x) /\ f.pos \in Nat /\ f.pos <= MaxSize /\ MaxSize \in Nat
  BY FileRecordFields, Constants DEF IInv, Settled, Shape
<1>2. Sought(x, f.pos, w)
  BY <1>1, SeekMoves
<1>3. Shape(w) /\ ContentsOf(w) = ContentsOf(x) /\ w.pos \in Nat
  BY <1>2, FileRecordFields DEF Sought, Shape
<1>4. Len(ContentsOf(x)) = lfs_file_rawsize(x) /\ lfs_file_rawsize(x) \in Nat
      /\ Len(ContentsOf(x)) <= MaxSize
  BY <1>1, ContentsProperties DEF Settled
<1>5. w.pos <= MaxSize
  <2>1. CASE Ok(w)
    BY <1>1, <1>2, <2>1 DEF Sought
  <2>2. CASE ~Ok(w)
    <3>1. w.pos <= lfs_file_rawsize(x)
      BY <1>2, <2>2 DEF Sought
    <3> QED
      BY <1>1, <1>3, <1>4, <3>1
  <2> QED
    BY <2>1, <2>2
<1>6. Settled(w)
  BY <1>2, <1>3, <1>4, <1>5 DEF Settled, Sought
<1> QED
  BY <1>2, <1>3, <1>6 DEF Sought

\* Fewer bytes, or as many.
LEMMA AbstractShortening == ASSUME NEW c \in Seq(Byte), NEW n \in 0..Len(c)
  PROVE  Atomic!Slice(c, 1, n) \o Atomic!Zeros(Atomic!Max({0, n - Len(c)})) = SubSeq(c, 1, n)
<1>1. Len(c) \in Nat /\ n - Len(c) \in Int /\ n - Len(c) <= 0
  OBVIOUS
<1>2. Atomic!Max({0, n - Len(c)}) = 0
  BY <1>1, AtomicMaxMin
<1>3. Atomic!Zeros(Atomic!Max({0, n - Len(c)})) = <<>>
  <2>1. Zeros(0) \in Seq(Byte) /\ Len(Zeros(0)) = 0
    BY ZerosProperties
  <2> QED
    BY <1>2, <2>1, AtomicZeros, EmptySeq
<1>4. Atomic!Slice(c, 1, n) = SubSeq(c, 1, n)
  <2>1. Min({n, Len(c)}) = n
    BY <1>1, MinOfTwo
  <2> QED
    BY <2>1, AtomicSlice DEF Slice
<1>5. SubSeq(c, 1, n) \in Seq(Byte)
  BY FrontProperties
<1> QED
  BY <1>3, <1>4, <1>5, ConcatEmptySeq

\* More bytes: the abstract truncation is a write of zeros to the end.
LEMMA AbstractExtension == ASSUME NEW c \in Seq(Byte), NEW n \in Nat, n > Len(c)
  PROVE  Atomic!Slice(c, 1, n) \o Atomic!Zeros(Atomic!Max({0, n - Len(c)}))
           = Atomic!Overwrite(c, Len(c), Zeros(n - Len(c)))
<1>1. Len(c) \in Nat /\ n - Len(c) \in Nat /\ n - Len(c) > 0 /\ Len(c) \in 0..Len(c)
  OBVIOUS
<1>2. Atomic!Zeros(Atomic!Max({0, n - Len(c)})) = Zeros(n - Len(c))
  <2>1. 0 \in Int /\ n - Len(c) \in Int
    BY <1>1
  <2>2. Atomic!Max({0, n - Len(c)}) = IF 0 >= n - Len(c) THEN 0 ELSE n - Len(c)
    BY <2>1, AtomicMaxMin
  <2>3. Atomic!Max({0, n - Len(c)}) = n - Len(c)
    BY <1>1, <2>2
  <2> QED
    BY <2>3, AtomicZeros
<1>3. Atomic!Slice(c, 1, n) = c
  <2>1. Min({n, Len(c)}) = Len(c)
    <3>1. Min({n, Len(c)}) = IF n <= Len(c) THEN n ELSE Len(c)
      BY <1>1, MinOfTwo
    <3> QED
      BY <1>1, <3>1
  <2> QED
    BY <2>1, AtomicSlice, AllOf DEF Slice
<1>4. Zeros(n - Len(c)) \in Seq(Byte)
  BY <1>1, ZerosProperties
<1> QED
  BY <1>1, <1>2, <1>3, <1>4, OverwriteInside, PutAtEnd

\* Before the truncation, and after it and the seek back: it failed, or the
\* seek did, or all is done.
LEMMA TruncateKeepsOrShortens ==
  ASSUME IInv, NEW n \in 0..MaxSize, NEW x, Settled(x), Ok(x), ~Is(x, "WRITING") \/ n = Len(Contents),
         Is(x, "ERRED") <=> Is(f, "ERRED"), n <= Len(Contents),
         ContentsOf(x) = SubSeq(Contents, 1, n),
         NEW w, w = lfs_file_rawseek(x, f.pos), Answer(w, <<>>), UNCHANGED disk
  PROVE  IInv' /\ (Atomic!Truncate(n) \/ Atomic!Fail)
<1>1. /\ Settled(w) /\ ContentsOf(w) = ContentsOf(x)
      /\ Ok(w) => w.pos = f.pos /\ (Is(w, "ERRED") <=> Is(x, "ERRED"))
      /\ ~Ok(w) => Is(w, "ERRED") /\ w.err = "nospc" /\ Is(x, "WRITING")
  BY SeekBack
<1>2. Contents \in Seq(Byte)
  BY ContentsIs, ContentsProperties DEF IInv, Settled
<1>3. CASE ~Ok(w)
  <2>1. n = Len(Contents)
    BY <1>1, <1>3
  <2>2. ContentsOf(w) = ContentsOf(f)
    BY <1>1, <1>2, <2>1, AllOf, ContentsIs
  <2> QED
    BY <1>1, <1>3, <2>2, FailedCall
<1>4. CASE Ok(w)
  <2>1. /\ IInv' /\ Contents' = ContentsOf(w) /\ f'.pos = w.pos
        /\ Is(f', "ERRED") <=> Is(w, "ERRED")
        /\ answer' = [res |-> w.err, data |-> IF Ok(w) THEN <<>> ELSE <<>>]
    BY <1>1, Returned
  <2>2. answer' = Atomic!Done
    BY <1>4, <2>1 DEF Atomic!Done, Ok
  <2>3. Contents' = Atomic!Slice(Contents, 1, n) \o Atomic!Zeros(Atomic!Max({0, n - Len(Contents)}))
    <3>1. n \in 0..Len(Contents)
      BY <1>2
    <3> QED
      BY <1>1, <1>2, <2>1, <3>1, AbstractShortening
  <2>4. Is(f, "ERRED")' = (Is(f, "ERRED") /\ n <= Len(Contents))
    BY <1>1, <1>4, <2>1 DEF Is
  <2>5. f'.pos = f.pos /\ disk'.data = disk.data
    BY <1>1, <1>4, <2>1
  <2>6. Atomic!Truncate(n)
    BY <2>2, <2>3, <2>4, <2>5, Zenon DEF Atomic!Truncate
  <2> QED
    BY <2>1, <2>6
<1> QED
  BY <1>3, <1>4

\* The step of the abstract file for an extension that fails.
ExtendsPartly(n) == n > Len(Contents) /\ Atomic!WritePartly(Len(Contents), Zeros(n - Len(Contents)))

\* A truncation to more bytes.
LEMMA TruncateExtends ==
  ASSUME IInv, NEW n \in 0..MaxSize, n > Len(Contents), NEW b, Shape(b),
         ContentsOf(b) = ContentsOf(f), b.flags = f.flags,
         NEW x, WroteAt(b, Len(Contents), Zeros(n - Len(Contents)), x),
         NEW w, w = SeekIfOk(x, f.pos), Answer(w, <<>>), UNCHANGED disk
  PROVE  IInv' /\ (Atomic!Truncate(n) \/ ExtendsPartly(n))
<1> DEFINE c == Contents
           z == Zeros(n - Len(c))
<1>1. c \in Seq(Byte) /\ Len(c) \in Nat /\ n \in Nat /\ n <= MaxSize /\ MaxSize \in Nat
      /\ n > Len(c) /\ n - Len(c) \in Nat
  <2>1. c \in Seq(Byte)
    BY ContentsIs, ContentsProperties DEF IInv, Settled
  <2> QED
    BY <2>1, Constants
<1>2. z \in Seq(Byte) /\ Len(z) = n - Len(c)
  BY <1>1, ZerosProperties
<1>3. WroteAsAbstract(Len(c), z, x)
  <2>1. Len(c) + Len(z) <= MaxSize
    BY <1>1, <1>2
  <2>2. WroteAt(b, Len(c), z, x)
    OBVIOUS
  <2> HIDE DEF c, z
  <2> QED
    BY <1>1, <1>2, <2>1, <2>2, WriteIsAbstract
<1>4. Settled(x) /\ (Is(x, "ERRED") <=> ~Ok(x)) /\ (~Ok(x) => x.err = "nospc")
  BY <1>3 DEF WroteAsAbstract, WroteAt
<1>5. /\ Settled(w) /\ ContentsOf(w) = ContentsOf(x)
      /\ Ok(w) => Ok(x) /\ w.pos = f.pos /\ ~Is(w, "ERRED")
      /\ ~Ok(w) => Is(w, "ERRED") /\ w.err = "nospc"
  <2>1. CASE Ok(x)
    <3>1. w = lfs_file_rawseek(x, f.pos)
      BY <2>1 DEF SeekIfOk
    <3> QED
      BY <1>4, <2>1, <3>1, SeekBack
  <2>2. CASE ~Ok(x)
    BY <1>4, <2>2 DEF SeekIfOk
  <2> QED
    BY <2>1, <2>2
<1>6. /\ IInv' /\ Contents' = ContentsOf(w) /\ f'.pos = w.pos
      /\ Is(f', "ERRED") <=> Is(w, "ERRED")
      /\ answer' = [res |-> w.err, data |-> IF Ok(w) THEN <<>> ELSE <<>>]
  BY <1>5, Returned
<1>7. CASE Ok(w)
  <2>1. answer' = Atomic!Done
    BY <1>6, <1>7 DEF Atomic!Done, Ok
  <2>2. Contents' = Atomic!Slice(c, 1, n) \o Atomic!Zeros(Atomic!Max({0, n - Len(c)}))
    <3>1. ContentsOf(x) = Atomic!Overwrite(c, Len(c), z)
      BY <1>3, <1>5, <1>7 DEF WroteAsAbstract
    <3>2. Atomic!Slice(c, 1, n) \o Atomic!Zeros(Atomic!Max({0, n - Len(c)}))
            = Atomic!Overwrite(c, Len(c), z)
      <4> HIDE DEF c
      <4> QED
        BY <1>1, AbstractExtension
    <3> QED
      BY <1>5, <1>6, <3>1, <3>2
  <2>3. Is(f, "ERRED")' = (Is(f, "ERRED") /\ n <= Len(c))
    <3>1. ~(n <= Len(c))
      BY <1>1
    <3>2. ~Is(f', "ERRED")
      BY <1>5, <1>6, <1>7
    <3> QED
      BY <3>1, <3>2 DEF Is
  <2>4. f'.pos = f.pos /\ disk'.data = disk.data
    BY <1>5, <1>6, <1>7
  <2>5. Atomic!Truncate(n)
    BY <2>1, <2>2, <2>3, <2>4, Zenon DEF Atomic!Truncate
  <2> QED
    BY <1>6, <2>5
<1>8. CASE ~Ok(w)
  <2>1. answer' = [Atomic!Done EXCEPT !.res = "nospc"]
    BY <1>5, <1>6, <1>8 DEF Atomic!Done
  <2>2. Is(f, "ERRED")' = TRUE
    BY <1>5, <1>6, <1>8 DEF Is
  <2>3. \E k \in 0..MaxSize : Contents' = Atomic!Partly(c, Len(c), z, k)
    BY <1>3, <1>5, <1>6 DEF WroteAsAbstract
  <2>4. f'.pos \in 0..MaxSize /\ disk'.data = disk.data
    <3>1. w.pos \in Nat /\ w.pos <= MaxSize
      BY <1>5, FileRecordFields DEF Settled, Shape
    <3> QED
      BY <1>1, <1>6, <3>1
  <2>5. Atomic!WritePartly(Len(c), z)
    BY <2>1, <2>2, <2>3, <2>4, Zenon DEF Atomic!WritePartly
  <2> QED
    BY <1>6, <2>5 DEF ExtendsPartly
<1> QED
  BY <1>7, <1>8

\* A truncation is an abstract one, or it fails; extending may have
\* written some of the zeros then.
LEMMA TruncateSteps == ASSUME IInv, NEW r \in Rooms, NEW n \in 0..MaxSize, Truncate(n, r)
  PROVE  IInv' /\ (Atomic!Truncate(n) \/ Atomic!Fail \/ ExtendsPartly(n))
<1> DEFINE b == Begin(r)
           l == Len(Contents)
<1>1. /\ Shape(b) /\ Ok(b) /\ ContentsOf(b) = ContentsOf(f)
      /\ b.flags = f.flags /\ b.pos = f.pos /\ b.size = f.size
      /\ lfs_file_rawsize(b) = lfs_file_rawsize(f)
  BY BeginProperties
<1>2. PICK w, x : /\ x = Resized(b, n) /\ w = SeekIfOk(x, b.pos)
                  /\ Answer(w, <<>>) /\ UNCHANGED disk
  BY DEF Truncate, Return, lfs_file_rawtruncate
<1> HIDE DEF b
<1>3. Settled(f) /\ Contents = ContentsOf(f) /\ n \in Nat /\ n <= MaxSize /\ MaxSize \in Nat
  BY ContentsIs, Constants DEF IInv
<1>4. l = lfs_file_rawsize(b) /\ l \in Nat /\ Contents \in Seq(Byte) /\ l <= MaxSize
  BY <1>1, <1>3, ContentsProperties DEF Settled
<1> HIDE DEF l
<1>5. /\ Is(b, "ERRED") <=> Is(f, "ERRED")
      /\ Is(b, "DIRTY") <=> Is(f, "DIRTY")
      /\ Is(b, "WRITING") <=> Is(f, "WRITING")
  BY <1>1, FlagsTell
<1>6. /\ Shape(x) /\ ~Ok(x) /\ ContentsOf(x) = ContentsOf(b) /\ Is(x, "ERRED")
      /\ x.err = "nospc" /\ x.pos <= lfs_file_rawsize(b)
      /\ Is(x, "DIRTY") \/ Is(x, "WRITING")
      => IInv' /\ Atomic!Fail
  <2>1. SUFFICES ASSUME /\ Shape(x) /\ ~Ok(x) /\ ContentsOf(x) = ContentsOf(b) /\ Is(x, "ERRED")
                        /\ x.err = "nospc" /\ x.pos <= lfs_file_rawsize(b)
                        /\ Is(x, "DIRTY") \/ Is(x, "WRITING")
                 PROVE  IInv' /\ Atomic!Fail
    OBVIOUS
  <2>2. w = x
    BY <1>2, <2>1 DEF SeekIfOk
  <2>3. x.pos \in Nat
    BY <2>1, FileRecordFields DEF Shape
  <2>4. x.pos <= MaxSize
    BY <1>3, <1>4, <2>1, <2>3
  <2>5. Settled(x)
    BY <1>1, <1>3, <1>4, <2>1, <2>4 DEF Settled, l
  <2> QED
    BY <1>1, <1>2, <2>1, <2>2, <2>5, FailedCall
<1>7. CASE n < l
  <2>1. \/ Shortened(b, n, x)
        \/ /\ Shape(x) /\ ~Ok(x) /\ ContentsOf(x) = ContentsOf(b) /\ Is(x, "ERRED")
           /\ x.err = "nospc" /\ x.pos <= lfs_file_rawsize(b)
           /\ Is(x, "DIRTY") \/ Is(x, "WRITING")
    <3>1. n < lfs_file_rawsize(b)
      BY <1>4, <1>7
    <3> QED
      BY <1>1, <1>2, <1>3, <3>1, ResizeShortens
  <2>2. CASE Shortened(b, n, x)
    <3>1. /\ Shape(x) /\ ContentsOf(x) = SubSeq(Contents, 1, n)
          /\ Ok(x) /\ ~Is(x, "WRITING") /\ Is(x, "DIRTY")
          /\ Is(x, "ERRED") <=> Is(f, "ERRED")
      BY <1>1, <1>3, <1>5, <2>2 DEF Shortened
    <3>2. n \in 0..Len(Contents) /\ n <= Len(Contents)
      BY <1>3, <1>4, <1>7 DEF l
    <3>3. Len(SubSeq(Contents, 1, n)) = n
      BY <1>4, <3>2, FrontProperties
    <3>4. x.pos <= MaxSize
      BY <1>3, <2>2 DEF Shortened
    <3>5. Settled(x)
      BY <1>3, <3>1, <3>3, <3>4 DEF Settled
    <3>6. w = lfs_file_rawseek(x, f.pos)
      BY <1>1, <1>2, <3>1 DEF SeekIfOk
    <3>7. IInv' /\ (Atomic!Truncate(n) \/ Atomic!Fail)
      BY <1>2, <3>1, <3>2, <3>5, <3>6, TruncateKeepsOrShortens
    <3> QED
      BY <3>7
  <2> QED
    BY <1>6, <2>1, <2>2
<1>8. CASE n = l
  <2>1. x = b
    <3>1. ~(n < lfs_file_rawsize(b)) /\ ~(n > lfs_file_rawsize(b))
      BY <1>4, <1>8
    <3> QED
      BY <1>2, <3>1, Zenon DEF Resized
  <2>2. Settled(x) /\ Ok(x) /\ (Is(x, "ERRED") <=> Is(f, "ERRED"))
    BY <1>1, <1>3, <1>5, <2>1 DEF Settled
  <2>3. ContentsOf(x) = SubSeq(Contents, 1, n) /\ n = Len(Contents)
    BY <1>1, <1>3, <1>4, <1>8, <2>1, AllOf DEF l
  <2>4. w = lfs_file_rawseek(x, f.pos)
    BY <1>1, <1>2, <2>2 DEF SeekIfOk
  <2>5. n <= Len(Contents)
    BY <1>3, <2>3
  <2>6. IInv' /\ (Atomic!Truncate(n) \/ Atomic!Fail)
    BY <1>2, <2>2, <2>3, <2>4, <2>5, TruncateKeepsOrShortens
  <2> QED
    BY <2>6
<1>9. CASE n > l
  <2>1. WroteAt(b, lfs_file_rawsize(b), Zeros(n - lfs_file_rawsize(b)), x)
        \/ /\ Shape(x) /\ ~Ok(x) /\ ContentsOf(x) = ContentsOf(b) /\ Is(x, "ERRED")
           /\ x.err = "nospc" /\ x.pos <= lfs_file_rawsize(b)
           /\ Is(x, "DIRTY") \/ Is(x, "WRITING")
    <3>1. n > lfs_file_rawsize(b)
      BY <1>4, <1>9
    <3> QED
      BY <1>1, <1>2, <1>3, <3>1, ResizeExtends
  <2>2. CASE WroteAt(b, lfs_file_rawsize(b), Zeros(n - lfs_file_rawsize(b)), x)
    <3>1. WroteAt(b, Len(Contents), Zeros(n - Len(Contents)), x) /\ n > Len(Contents)
      BY <1>4, <1>9, <2>2 DEF l
    <3>2. w = SeekIfOk(x, f.pos)
      BY <1>1, <1>2
    <3>3. IInv' /\ (Atomic!Truncate(n) \/ ExtendsPartly(n))
      BY <1>1, <1>2, <3>1, <3>2, TruncateExtends
    <3> QED
      BY <3>3
  <2> QED
    BY <1>6, <2>1, <2>2
<1> QED
  BY <1>3, <1>4, <1>7, <1>8, <1>9

\* The flags that say what is to be done about a file, and the result of a
\* call, tell nothing of its bytes.
SameBytes(g, fl, e, w) ==
  /\ Shape(w) /\ ContentsOf(w) = ContentsOf(g)
  /\ w.pos = g.pos /\ w.err = e /\ w.flags = fl

\* A change of the flags that keeps INLINE and WRITING leaves the bytes.
LEMMA Reflagged ==
  ASSUME NEW g, Shape(g), NEW fl, fl \in SUBSET Flags, NEW e, e \in {"ok", "nospc"},
         "INLINE" \in fl <=> Is(g, "INLINE"), "WRITING" \in fl <=> Is(g, "WRITING"),
         NEW w, w = [g EXCEPT !.flags = fl, !.err = e]
  PROVE  SameBytes(g, fl, e, w)
<1>1. g \in FileRecord
  BY DEF Shape
<1>2. /\ w.flags = fl /\ w.pos = g.pos /\ w.size = g.size /\ w.head = g.head /\ w.list = g.list
      /\ w.buffer = g.buffer /\ w.branch = g.branch /\ w.err = e /\ w \in FileRecord
  BY <1>1 DEF FileRecord
<1>3. /\ Is(w, "INLINE") <=> Is(g, "INLINE")
      /\ Is(w, "WRITING") <=> Is(g, "WRITING")
  BY <1>2 DEF Is
<1>4. lfs_file_rawsize(w) = lfs_file_rawsize(g)
  BY <1>2, <1>3 DEF lfs_file_rawsize
<1>5. ContentsOf(w) = ContentsOf(g)
  BY <1>2, <1>3, <1>4 DEF ContentsOf
<1>6. Shape(w)
  BY <1>2, <1>3 DEF Shape, InlineShape, ListShape
<1> QED
  BY <1>2, <1>5, <1>6 DEF SameBytes

\* A sync that finds no space marks the file.
LEMMA Marked ==
  ASSUME NEW g, Settled(g), NEW e, e \in {"ok", "nospc"}, NEW w, w = [Add(g, {"ERRED"}) EXCEPT !.err = e]
  PROVE  Settled(w) /\ ContentsOf(w) = ContentsOf(g) /\ Is(w, "ERRED") /\ w.err = e
<1> DEFINE fl == g.flags \cup {"ERRED"}
           v == [g EXCEPT !.flags = fl, !.err = e]
<1>1. Shape(g) /\ g \in FileRecord /\ g.flags \subseteq Flags
  BY FileRecordFields DEF Settled, Shape
<1>2. fl \in SUBSET Flags
  BY <1>1 DEF Flags
<1>3. w = v
  BY <1>1 DEF Add, FileRecord
<1>4. /\ "INLINE" \in fl <=> Is(g, "INLINE")
      /\ "WRITING" \in fl <=> Is(g, "WRITING")
      /\ "DIRTY" \in fl <=> Is(g, "DIRTY")
      /\ "ERRED" \in fl
  BY DEF Is
<1> HIDE DEF fl
<1>5. SameBytes(g, fl, e, v)
  <2>1. v = [g EXCEPT !.flags = fl, !.err = e]
    OBVIOUS
  <2> HIDE DEF v
  <2>2. "INLINE" \in fl <=> Is(g, "INLINE")
    BY <1>4
  <2>3. "WRITING" \in fl <=> Is(g, "WRITING")
    BY <1>4
  <2>4. Shape(g)
    BY <1>1
  <2> QED
    BY <1>2, <2>1, <2>2, <2>3, <2>4, Reflagged
<1>6. /\ Shape(w) /\ ContentsOf(w) = ContentsOf(g) /\ w.pos = g.pos /\ w.err = e /\ w.flags = fl
  BY <1>3, <1>5 DEF SameBytes
<1>7. /\ Is(w, "DIRTY") <=> Is(g, "DIRTY")
      /\ Is(w, "WRITING") <=> Is(g, "WRITING")
      /\ Is(w, "ERRED")
  BY <1>4, <1>6 DEF Is
<1> QED
  BY <1>6, <1>7 DEF Settled

\* A file as it was flushed at the begin of a sync.
LEMMA FlushSettled == ASSUME IInv, NEW r \in Rooms, NEW g, g = lfs_file_flush(Begin(r))
  PROVE  /\ Settled(g) /\ ContentsOf(g) = ContentsOf(f)
         /\ Ok(g) => ~Is(g, "WRITING") /\ g.pos = f.pos /\ (Is(g, "ERRED") <=> Is(f, "ERRED"))
         /\ ~Ok(g) => Is(g, "ERRED") /\ g.err = "nospc"
<1> DEFINE b == Begin(r)
<1>1. /\ Shape(b) /\ Ok(b) /\ ContentsOf(b) = ContentsOf(f)
      /\ b.flags = f.flags /\ b.pos = f.pos /\ b.size = f.size
      /\ lfs_file_rawsize(b) = lfs_file_rawsize(f)
  BY BeginProperties
<1>2. Flushed(b, g)
  BY <1>1, FlushKeeps
<1> HIDE DEF b
<1>3. /\ Is(b, "ERRED") <=> Is(f, "ERRED")
      /\ Is(b, "DIRTY") <=> Is(f, "DIRTY")
      /\ Is(b, "WRITING") <=> Is(f, "WRITING")
  BY <1>1, FlagsTell
<1>4. Settled(f) /\ f.pos \in Nat /\ f.pos <= MaxSize /\ MaxSize \in Nat
  BY FileRecordFields, Constants DEF IInv, Settled, Shape
<1>5. Len(ContentsOf(f)) = lfs_file_rawsize(f) /\ lfs_file_rawsize(f) \in Nat
      /\ Len(ContentsOf(f)) <= MaxSize
  BY <1>4, ContentsProperties DEF Settled
<1>6. Shape(g) /\ ContentsOf(g) = ContentsOf(f) /\ g.pos \in Nat
  BY <1>1, <1>2, FileRecordFields DEF Flushed, Shape
<1>7. g.pos <= MaxSize
  <2>1. CASE Ok(g)
    BY <1>1, <1>2, <1>4, <2>1 DEF Flushed
  <2>2. CASE ~Ok(g)
    <3>1. g.pos <= lfs_file_rawsize(f)
      BY <1>1, <1>2, <2>2 DEF Flushed
    <3> QED
      BY <1>4, <1>5, <1>6, <3>1
  <2> QED
    BY <2>1, <2>2
<1>8. Settled(g)
  BY <1>2, <1>3, <1>4, <1>5, <1>6, <1>7 DEF Settled, Flushed
<1> QED
  BY <1>1, <1>2, <1>3, <1>6, <1>8 DEF Flushed

\* A sync that does nothing: the file is not to be synced, or it has erred.
LEMMA IdleSync ==
  ASSUME IInv, NEW w, Settled(w), Ok(w), ContentsOf(w) = ContentsOf(f), w.pos = f.pos,
         Is(w, "ERRED") <=> Is(f, "ERRED"), Return(w), UNCHANGED disk,
         Is(f, "ERRED") \/ ContentsOf(f) = disk.data
  PROVE  IInv' /\ Atomic!Sync
<1>1. /\ IInv' /\ Contents' = ContentsOf(w) /\ f'.pos = w.pos
      /\ Is(f', "ERRED") <=> Is(w, "ERRED")
      /\ answer' = [res |-> w.err, data |-> IF Ok(w) THEN <<>> ELSE <<>>]
  BY Returned DEF Return
<1>2. answer' = Atomic!Done
  BY <1>1 DEF Atomic!Done, Ok
<1>3. disk'.data = IF Is(f, "ERRED") THEN disk.data ELSE Contents
  BY ContentsIs
<1>4. Contents' = Contents /\ f'.pos = f.pos
  BY <1>1, ContentsIs
<1>5. Is(f, "ERRED")' = Is(f, "ERRED")
  BY <1>1 DEF Is
<1> QED
  BY <1>1, <1>2, <1>3, <1>4, <1>5, Zenon DEF Atomic!Sync

\* A sync that commits the file.
LEMMA CommittedSync ==
  ASSUME IInv, NEW g, Settled(g), Ok(g), ContentsOf(g) = ContentsOf(f), g.pos = f.pos,
         ~Is(g, "WRITING"), Is(g, "ERRED") <=> Is(f, "ERRED"), ~Is(f, "ERRED"),
         Return(Drop(g, {"DIRTY"})), disk' = [kind |-> g.head, data |-> Bytes(g)]
  PROVE  IInv' /\ Atomic!Sync
<1> DEFINE fl == g.flags \ {"DIRTY"}
<1>1. Shape(g) /\ g \in FileRecord /\ g.flags \subseteq Flags /\ g.err = "ok"
  BY FileRecordFields DEF Settled, Shape, Ok
<1>2. PICK w : w = Drop(g, {"DIRTY"}) /\ Answer(w, <<>>)
  BY DEF Return
<1>3. fl \in SUBSET Flags
  BY <1>1
<1>4. w = [g EXCEPT !.flags = fl, !.err = "ok"]
  BY <1>1, <1>2 DEF Drop, FileRecord
<1>5. /\ "INLINE" \in fl <=> Is(g, "INLINE")
      /\ "WRITING" \in fl <=> Is(g, "WRITING")
      /\ "ERRED" \in fl <=> Is(g, "ERRED")
  BY DEF Is
<1> HIDE DEF fl
<1>6. /\ Shape(w) /\ ContentsOf(w) = ContentsOf(g) /\ w.pos = g.pos /\ w.err = "ok" /\ w.flags = fl
  <2>1. "ok" \in {"ok", "nospc"}
    OBVIOUS
  <2>2. "INLINE" \in fl <=> Is(g, "INLINE")
    BY <1>5
  <2>3. "WRITING" \in fl <=> Is(g, "WRITING")
    BY <1>5
  <2>4. Shape(g)
    BY <1>1
  <2>5. SameBytes(g, fl, "ok", w)
    BY <1>3, <1>4, <2>1, <2>2, <2>3, <2>4, Reflagged
  <2> QED
    BY <2>5 DEF SameBytes
<1>7. /\ Shape(f') /\ ContentsOf(f') = ContentsOf(w) /\ f'.pos = w.pos /\ f'.err = "ok"
      /\ Is(f', "ERRED") <=> Is(w, "ERRED")
      /\ Is(f', "DIRTY") <=> Is(w, "DIRTY")
      /\ Is(f', "WRITING") <=> Is(w, "WRITING")
      /\ Contents' = ContentsOf(w)
      /\ answer' = [res |-> w.err, data |-> IF Ok(w) THEN <<>> ELSE <<>>]
  BY <1>2, <1>6, ReturnedFile
<1>8. Bytes(g) = ContentsOf(g) /\ ContentsOf(g) \in Seq(Byte) /\ Len(ContentsOf(g)) = g.size
  BY <1>1, BytesAreContents
<1>9. disk'.data = ContentsOf(f) /\ disk'.kind = g.head
  BY <1>8
<1>10. DiskFits'
  <2>1. disk' \in DiskRecord
    BY <1>1, <1>8, FileRecordFields DEF DiskRecord
  <2>2. disk'.kind = "inline" => Len(disk'.data) <= InlineUpTo
    <3>1. SUFFICES ASSUME g.head = "inline" PROVE Len(ContentsOf(f)) <= InlineUpTo
      BY <1>9
    <3>2. Is(g, "INLINE")
      BY <1>1, <3>1 DEF Shape, ListShape
    <3>3. g.size <= Len(g.buffer) /\ Len(g.buffer) <= InlineUpTo /\ Len(g.buffer) \in Nat /\ g.size \in Nat
      BY <1>1, <3>2, FileRecordFields DEF Shape, InlineShape
    <3> QED
      BY <1>8, <3>3, Constants
  <2> QED
    BY <2>1, <2>2 DEF DiskFits
<1>11. Len(ContentsOf(f)) <= MaxSize /\ f.pos <= MaxSize
  BY DEF IInv, Settled
<1>12. /\ Shape(f') /\ f'.pos <= MaxSize /\ Len(ContentsOf(f')) <= MaxSize
       /\ ContentsOf(f') = disk'.data /\ f'.err = "ok" /\ Len(disk'.data) <= MaxSize
  BY <1>6, <1>7, <1>9, <1>11
<1>13. IInv'
  BY <1>10, <1>12 DEF IInv, Settled
<1>14. answer' = Atomic!Done
  BY <1>6, <1>7 DEF Atomic!Done, Ok
<1>15. Is(w, "ERRED") <=> Is(f, "ERRED")
  BY <1>5, <1>6 DEF Is
<1>16. Is(f, "ERRED")' = Is(f, "ERRED")
  BY <1>7, <1>15 DEF Is
<1>17. Contents' = Contents /\ f'.pos = f.pos
  BY <1>6, <1>7, ContentsIs
<1>18. disk'.data = IF Is(f, "ERRED") THEN disk.data ELSE Contents
  BY <1>9, ContentsIs
<1>19. Atomic!Sync
  BY <1>14, <1>16, <1>17, <1>18, Zenon DEF Atomic!Sync
<1> QED
  BY <1>13, <1>19

\* A sync makes the bytes durable, does nothing for a file that has erred,
\* or fails and marks the file.
LEMMA SyncSteps == ASSUME IInv, NEW r \in Rooms, NEW committed \in BOOLEAN, Sync(r, committed)
  PROVE  IInv' /\ (Atomic!Sync \/ Atomic!Fail)
<1> DEFINE g == lfs_file_flush(Begin(r))
<1>1. /\ Settled(g) /\ ContentsOf(g) = ContentsOf(f)
      /\ Ok(g) => ~Is(g, "WRITING") /\ g.pos = f.pos /\ (Is(g, "ERRED") <=> Is(f, "ERRED"))
      /\ ~Ok(g) => Is(g, "ERRED") /\ g.err = "nospc"
  BY FlushSettled
<1>2. IF Is(f, "ERRED") THEN Return(f) /\ UNCHANGED disk
      ELSE IF ~Ok(g) THEN Return(Add(g, {"ERRED"})) /\ UNCHANGED disk
      ELSE IF ~Is(g, "DIRTY") THEN Return(g) /\ UNCHANGED disk
      ELSE IF committed
      THEN Return(Drop(g, {"DIRTY"})) /\ disk' = [kind |-> g.head, data |-> Bytes(g)]
      ELSE Return([Add(g, {"ERRED"}) EXCEPT !.err = "nospc"]) /\ UNCHANGED disk
  BY DEF Sync
<1> HIDE DEF g
<1>3. Settled(f) /\ Ok(f)
  BY DEF IInv, Ok
<1>4. "nospc" \in {"ok", "nospc"}
  OBVIOUS
<1>5. CASE Is(f, "ERRED")
  <2>1. Return(f) /\ UNCHANGED disk
    BY <1>2, <1>5
  <2> QED
    BY <1>3, <1>5, <2>1, IdleSync
<1>6. CASE ~Is(f, "ERRED") /\ ~Ok(g)
  <2> DEFINE w == Add(g, {"ERRED"})
  <2>1. Return(w) /\ UNCHANGED disk
    BY <1>2, <1>6
  <2>2. w = [Add(g, {"ERRED"}) EXCEPT !.err = "nospc"]
    BY <1>1, <1>6 DEF Settled, Shape, FileRecord, Add
  <2>3. Settled(w) /\ ContentsOf(w) = ContentsOf(g) /\ Is(w, "ERRED") /\ w.err = "nospc"
    BY <1>1, <1>4, <2>2, Marked
  <2> HIDE DEF w
  <2>4. Answer(w, <<>>)
    BY <2>1 DEF Return
  <2> QED
    BY <1>1, <2>1, <2>3, <2>4, FailedCall
<1>7. CASE ~Is(f, "ERRED") /\ Ok(g) /\ ~Is(g, "DIRTY")
  <2>1. Return(g) /\ UNCHANGED disk
    BY <1>2, <1>7
  <2>2. ContentsOf(f) = disk.data
    BY <1>1, <1>7 DEF Settled
  <2> QED
    BY <1>1, <1>7, <2>1, <2>2, IdleSync
<1>8. CASE ~Is(f, "ERRED") /\ Ok(g) /\ Is(g, "DIRTY") /\ committed
  <2>1. Return(Drop(g, {"DIRTY"})) /\ disk' = [kind |-> g.head, data |-> Bytes(g)]
    BY <1>2, <1>8
  <2> QED
    BY <1>1, <1>8, <2>1, CommittedSync
<1>9. CASE ~Is(f, "ERRED") /\ Ok(g) /\ Is(g, "DIRTY") /\ ~committed
  <2> DEFINE w == [Add(g, {"ERRED"}) EXCEPT !.err = "nospc"]
  <2>1. Return(w) /\ UNCHANGED disk
    BY <1>2, <1>9
  <2>2. Settled(w) /\ ContentsOf(w) = ContentsOf(g) /\ Is(w, "ERRED") /\ w.err = "nospc"
    BY <1>1, <1>4, Marked
  <2> HIDE DEF w
  <2>3. Answer(w, <<>>)
    BY <2>1 DEF Return
  <2> QED
    BY <1>1, <2>1, <2>2, <2>3, FailedCall
<1> QED
  BY <1>5, <1>6, <1>7, <1>8, <1>9

\* A file that is opened has the committed bytes, or none.
LEMMA OpenedFile ==
  ASSUME NEW d \in DiskRecord, d.kind = "inline" => Len(d.data) <= InlineUpTo,
         NEW trunc \in BOOLEAN, NEW w, w = Opened(d, trunc)
  PROVE  /\ Shape(w) /\ w.pos = 0 /\ w.err = "ok" /\ ~Is(w, "ERRED")
         /\ ContentsOf(w) = IF trunc THEN <<>> ELSE d.data
         /\ trunc => Is(w, "DIRTY")
<1> DEFINE inline == trunc \/ d.kind = "inline"
           data == IF trunc THEN <<>> ELSE d.data
           fl == (IF inline THEN {"INLINE"} ELSE {}) \cup (IF trunc THEN {"DIRTY"} ELSE {})
           z == <<>>
<1>1. d.data \in Seq(Byte) /\ d.kind \in {"inline", "list"}
  BY DEF DiskRecord
<1>2. z \in Seq(Byte) /\ Len(z) = 0 /\ 0 \in 0..BlockSize /\ 0 \in Nat
  BY Constants
<1>3. data \in Seq(Byte) /\ Len(data) \in Nat /\ (inline => Len(data) <= InlineUpTo)
  <2>1. CASE trunc
    <3>1. data = z
      BY <2>1
    <3> HIDE DEF data
    <3> QED
      BY <1>2, <3>1, Constants
  <2>2. CASE ~trunc
    <3>1. data = d.data /\ (inline => d.kind = "inline")
      BY <2>2
    <3> HIDE DEF data, inline
    <3> QED
      BY <1>1, <3>1
  <2> QED
    BY <2>1, <2>2
<1>4. fl \in SUBSET Flags
  BY DEF Flags
<1>5. /\ "INLINE" \in fl <=> inline
      /\ "DIRTY" \in fl <=> trunc
      /\ "WRITING" \notin fl /\ "ERRED" \notin fl
  OBVIOUS
<1>6. w = [flags |-> fl, pos |-> 0, size |-> Len(data), head |-> IF inline THEN "inline" ELSE "list",
           list |-> IF inline THEN z ELSE data, buffer |-> IF inline THEN data ELSE z,
           branch |-> z, offset |-> 0, room |-> 0, err |-> "ok"]
  BY Zenon DEF Opened
<1> HIDE DEF fl, data, inline, z
<1>7. CASE inline
  <2>1. w = [flags |-> fl, pos |-> 0, size |-> Len(data), head |-> "inline", list |-> z,
             buffer |-> data, branch |-> z, offset |-> 0, room |-> 0, err |-> "ok"]
    BY <1>6, <1>7
  <2>2. /\ w.flags = fl /\ w.pos = 0 /\ w.size = Len(data) /\ w.head = "inline" /\ w.list = z
        /\ w.buffer = data /\ w.branch = z /\ w.err = "ok" /\ w \in FileRecord
    BY <1>2, <1>3, <1>4, <2>1 DEF FileRecord
  <2>3. Is(w, "INLINE") /\ ~Is(w, "WRITING") /\ ~Is(w, "ERRED") /\ (Is(w, "DIRTY") <=> trunc)
    BY <1>5, <1>7, <2>2 DEF Is
  <2>4. InlineShape(w)
    BY <1>3, <1>7, <2>2, <2>3 DEF InlineShape, z
  <2>5. Shape(w)
    BY <2>2, <2>3, <2>4 DEF Shape
  <2>6. ContentsOf(w) = data
    <3>1. ContentsOf(w) = SubSeq(data, 1, Len(data))
      BY <2>2, <2>3 DEF ContentsOf, lfs_file_rawsize
    <3> QED
      BY <1>3, <3>1, AllOf
  <2> QED
    BY <2>2, <2>3, <2>5, <2>6 DEF data
<1>8. CASE ~inline
  <2>1. w = [flags |-> fl, pos |-> 0, size |-> Len(data), head |-> "list", list |-> data,
             buffer |-> z, branch |-> z, offset |-> 0, room |-> 0, err |-> "ok"]
    BY <1>6, <1>8
  <2>2. /\ w.flags = fl /\ w.pos = 0 /\ w.size = Len(data) /\ w.head = "list" /\ w.list = data
        /\ w.buffer = z /\ w.branch = z /\ w.err = "ok" /\ w \in FileRecord
    BY <1>2, <1>3, <1>4, <2>1 DEF FileRecord
  <2>3. ~Is(w, "INLINE") /\ ~Is(w, "WRITING") /\ ~Is(w, "ERRED") /\ (Is(w, "DIRTY") <=> trunc)
    BY <1>5, <1>8, <2>2 DEF Is
  <2>4. ListShape(w)
    <3>1. Len(w.buffer) <= InlineUpTo
      BY <1>2, <2>2, Constants
    <3> QED
      BY <2>2, <2>3, <3>1 DEF ListShape, z
  <2>5. Shape(w)
    BY <2>2, <2>3, <2>4 DEF Shape
  <2>6. ContentsOf(w) = data
    BY <2>2, <2>3 DEF ContentsOf
  <2> QED
    BY <2>2, <2>3, <2>5, <2>6 DEF data
<1> QED
  BY <1>7, <1>8

-----------------------------------------------------------------------------
(* The specification *)

\* An open starts from what was committed, or from nothing.
LEMMA OpenSteps == ASSUME IInv, NEW trunc \in BOOLEAN, Open(trunc)
  PROVE  IInv' /\ (Atomic!Reopen(disk.data) \/ Atomic!Reopen(<<>>))
<1> DEFINE c == IF trunc THEN <<>> ELSE disk.data
           z == <<>>
<1>1. /\ disk \in DiskRecord /\ (disk.kind = "inline" => Len(disk.data) <= InlineUpTo)
      /\ Len(disk.data) <= MaxSize /\ disk.data \in Seq(Byte)
  BY DEF IInv, DiskFits, DiskRecord
<1>2. f' = Opened(disk, trunc) /\ answer' = [res |-> "ok", data |-> <<>>] /\ disk' = disk
  BY DEF Open
<1>3. /\ Shape(f') /\ f'.pos = 0 /\ f'.err = "ok" /\ ~Is(f', "ERRED")
      /\ ContentsOf(f') = c
      /\ trunc => Is(f', "DIRTY")
  BY <1>1, <1>2, OpenedFile
<1>4. Len(c) <= MaxSize /\ (~trunc => c = disk'.data)
  <2>1. z \in Seq(Byte) /\ Len(z) = 0 /\ MaxSize \in Nat
    BY Constants
  <2>2. CASE trunc
    <3>1. c = z
      BY <2>2
    <3> HIDE DEF c, z
    <3> QED
      BY <2>1, <2>2, <3>1
  <2>3. CASE ~trunc
    BY <1>1, <1>2, <2>3
  <2> QED
    BY <2>2, <2>3
<1> HIDE DEF c
<1>5. Settled(f)'
  <2>1. f'.pos <= MaxSize
    BY <1>3, Constants
  <2>2. Is(f', "DIRTY") \/ ContentsOf(f') = disk'.data
    BY <1>3, <1>4
  <2> QED
    BY <1>3, <1>4, <2>1, <2>2 DEF Settled
<1>6. IInv'
  BY <1>1, <1>2, <1>3, <1>5 DEF IInv, DiskFits
<1>7. Contents' = c
  BY <1>3, ContentsIsNext
<1>8. answer' = Atomic!Done
  BY <1>2 DEF Atomic!Done
<1>9. Is(f, "ERRED")' = FALSE
  BY <1>3 DEF Is
<1>10. Atomic!Reopen(c)
  BY <1>2, <1>3, <1>7, <1>8, <1>9 DEF Atomic!Reopen
<1> QED
  BY <1>6, <1>10 DEF c

\* The file is empty at first, as the abstract one is.
LEMMA InitMaps == ASSUME Init PROVE IInv /\ Atomic!Init
<1> DEFINE z == <<>>
<1>1. z \in Seq(Byte) /\ Len(z) = 0 /\ 0 <= InlineUpTo /\ 0 <= MaxSize
  BY Constants
<1>2. /\ disk = [kind |-> "inline", data |-> z] /\ f = Opened(disk, FALSE)
      /\ answer = [res |-> "ok", data |-> <<>>]
  BY DEF Init
<1> HIDE DEF z
<1>3. disk \in DiskRecord /\ disk.data = z /\ Len(disk.data) = 0
  BY <1>1, <1>2 DEF DiskRecord
<1>4. disk.kind = "inline" => Len(disk.data) <= InlineUpTo
  BY <1>1, <1>3
<1>5. /\ Shape(f) /\ f.pos = 0 /\ f.err = "ok" /\ ~Is(f, "ERRED")
      /\ ContentsOf(f) = IF FALSE THEN <<>> ELSE disk.data
  <2>1. FALSE \in BOOLEAN
    OBVIOUS
  <2> QED
    BY <1>2, <1>3, <1>4, <2>1, OpenedFile
<1>6. IInv
  BY <1>1, <1>3, <1>4, <1>5 DEF IInv, DiskFits, Settled
<1>7. Contents = z
  BY <1>3, <1>5, ContentsIs
<1>8. Is(f, "ERRED") = FALSE
  BY <1>5 DEF Is
<1>9. answer = Atomic!Done
  BY <1>2 DEF Atomic!Done
<1>10. Atomic!Init
  BY <1>3, <1>5, <1>7, <1>8, <1>9 DEF Atomic!Init, z
<1> QED
  BY <1>6, <1>10

\* Nothing happens.
LEMMA StutterMaps == ASSUME IInv, UNCHANGED vars PROVE IInv' /\ UNCHANGED Atomic!vars
<1>1. f' = f /\ disk' = disk /\ answer' = answer
  BY DEF vars
<1>2. IInv'
  BY <1>1 DEF IInv, DiskFits, Settled
<1>3. Contents' = Contents
  BY <1>1, ContentsIs, ContentsIsNext
<1>4. Is(f, "ERRED")' = Is(f, "ERRED")
  BY <1>1
<1> QED
  BY <1>1, <1>2, <1>3, <1>4 DEF Atomic!vars

\* Every call is one step of the abstract file.
LEMMA CallMaps == ASSUME IInv, OneBound, Next PROVE IInv' /\ Atomic!Next
<1>1. ASSUME NEW r \in Rooms, NEW n \in Sizes, Read(n, r)
      PROVE  IInv' /\ Atomic!Next
  BY <1>1, ReadSteps, Zenon DEF Atomic!Next
<1>2. ASSUME NEW r \in Rooms, NEW n \in Sizes, NEW v \in Values, Write(n, v, r)
      PROVE  IInv' /\ Atomic!Next
  <2> DEFINE d == [i \in 1..n |-> v]
             p == WritePos(f)
  <2>1. IInv' /\ (Atomic!Write(p, d) \/ Atomic!WritePartly(p, d))
    BY <1>2, WriteSteps
  <2>2. p \in {f.pos, Len(Contents)}
    BY WritePosIs
  <2> HIDE DEF p
  <2> QED
    BY <2>1, <2>2, Zenon DEF Atomic!Next
<1>3. ASSUME NEW r \in Rooms, NEW n \in 0..MaxSize, Seek(n, r)
      PROVE  IInv' /\ Atomic!Next
  BY <1>3, SeekSteps, Zenon DEF Atomic!Next
<1>4. ASSUME NEW r \in Rooms, NEW n \in 0..MaxSize, Truncate(n, r)
      PROVE  IInv' /\ Atomic!Next
  <2>1. IInv' /\ (Atomic!Truncate(n) \/ Atomic!Fail \/ ExtendsPartly(n))
    BY <1>4, TruncateSteps
  <2>2. ASSUME ExtendsPartly(n)
        PROVE  n > Len(Contents) /\ Atomic!WritePartly(Len(Contents), Atomic!Zeros(n - Len(Contents)))
    BY <2>2, AtomicZeros DEF ExtendsPartly
  <2> QED
    BY <2>1, <2>2, Zenon DEF Atomic!Next
<1>5. ASSUME NEW r \in Rooms, NEW committed \in BOOLEAN, Sync(r, committed)
      PROVE  IInv' /\ Atomic!Next
  BY <1>5, SyncSteps, Zenon DEF Atomic!Next
<1>6. ASSUME NEW trunc \in BOOLEAN, Open(trunc)
      PROVE  IInv' /\ Atomic!Next
  BY <1>6, OpenSteps, Zenon DEF Atomic!Next
<1>7. ASSUME NEW n \in Sizes, WriteTooMuch(n)
      PROVE  IInv' /\ Atomic!Next
  <2>1. WritePos(f) + n > MaxSize /\ Refuse(WritePos(f), "fbig")
    BY <1>7 DEF WriteTooMuch
  <2>2. IInv' /\ Atomic!WriteTooMuch(WritePos(f), n)
    BY <2>1, RefusedSteps DEF Atomic!WriteTooMuch
  <2> QED
    BY <2>2, WritePosIs, Zenon DEF Atomic!Next
<1>8. CASE GoTooFar
  <2>1. IInv' /\ Atomic!GoTooFar
    BY <1>8, RefusedSteps DEF GoTooFar, Atomic!GoTooFar
  <2> QED
    BY <2>1, Zenon DEF Atomic!Next
<1> QED
  BY <1>1, <1>2, <1>3, <1>4, <1>5, <1>6, <1>7, <1>8 DEF Next

\* What Shape says of the buffer is what the tag needs.
LEMMA InvariantImpliesFits == ASSUME IInv PROVE InlineFits
<1>1. Max({OutlineAbove, InlineUpTo}) = InlineUpTo
  <2>1. OutlineAbove \in Int /\ InlineUpTo \in Int /\ OutlineAbove <= InlineUpTo
    BY Constants
  <2>2. Max({OutlineAbove, InlineUpTo}) = IF OutlineAbove >= InlineUpTo THEN OutlineAbove ELSE InlineUpTo
    BY <2>1, MaxOfTwo
  <2> QED
    BY <2>1, <2>2
<1>2. Is(f, "INLINE") => Len(f.buffer) <= InlineUpTo
  BY DEF IInv, Settled, Shape, InlineShape
<1> QED
  BY <1>1, <1>2 DEF InlineFits, IInv, DiskFits

\* In every state between two calls the file has a Shape, is not longer than
\* file_max_size and has been synced unless it says that it has not; no error
\* is left over from a call.
THEOREM AlwaysSettled == ASSUME OneBound PROVE Spec => []IInv
<1>1. Init => IInv
  BY InitMaps
<1>2. IInv /\ [Next]_vars => IInv'
  BY CallMaps, StutterMaps
<1> QED
  BY <1>1, <1>2, PTL DEF Spec

\* InlineFits, for every size of a block and every pair of bounds: what
\* lfs_file_rawsync commits inline fits into its tag and into the cache that
\* lfs_file_rawopencfg loads it to.
THEOREM CommittedInlineFits == ASSUME OneBound PROVE Spec => []InlineFits
BY AlwaysSettled, InvariantImpliesFits, PTL

\* ImplementsAtomicFile, for every value of the constants: however the file
\* goes from its directory to blocks and back and wherever space runs out,
\* each call of lfs_file.cpp is one step of the file that AtomicFile promises.
THEOREM CallsAreAtomic == ASSUME OneBound PROVE Spec => ImplementsAtomicFile
<1>1. Init => Atomic!Init
  BY InitMaps
<1>2. IInv /\ [Next]_vars => [Atomic!Next]_(Atomic!vars)
  BY CallMaps, StutterMaps
<1> QED
  BY <1>1, <1>2, AlwaysSettled, PTL DEF Spec, Atomic!Spec, ImplementsAtomicFile
=============================================================================
