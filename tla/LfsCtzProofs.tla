---------------------------- MODULE LfsCtzProofs -----------------------------
(***************************************************************************)
(* The block list of a file: the index of a position is right, and no      *)
(* version of the file is lost or changed while another one is written,    *)
(* for every size of blocks and pointers, every number of blocks and every *)
(* file size up to which a block has room for its pointers.                *)
(***************************************************************************)
EXTENDS LfsCtz, FiniteSetTheorems, SequenceTheorems, WellFoundedInduction, TLAPS

-----------------------------------------------------------------------------
(* Numbers *)

\* A set of numbers that is not empty has a least one.
LEMMA LeastOfSome == ASSUME NEW T \in SUBSET Nat, T # {}
  PROVE  \E x \in T : \A y \in T : x <= y
<1>1. \E x \in T : \A y \in T : ~(<<y, x>> \in OpToRel(<, Nat))
  BY WFMin, NatLessThanWellFounded, Zenon
<1>2. ASSUME NEW x \in Nat, NEW y \in Nat, ~(<<y, x>> \in OpToRel(<, Nat))
      PROVE  ~(y < x)
  BY <1>2, Zenon DEF OpToRel
<1>3. PICK x \in T : \A y \in T : ~(<<y, x>> \in OpToRel(<, Nat))
  BY <1>1
<1>4. ASSUME NEW y \in T PROVE x <= y
  <2>1. x \in Nat /\ y \in Nat /\ ~(y < x)
    BY <1>2, <1>3
  <2> QED
    BY <2>1
<1> QED
  BY <1>4

\* Induction up to N, for a property given by the set of numbers that have it.
LEMMA UpTo ==
  ASSUME NEW N \in Nat, NEW T, 0 \in T,
         \A k \in 1..N : k - 1 \in T => k \in T
  PROVE  0..N \subseteq T
<1> DEFINE U == (0..N) \ T
<1>1. CASE U = {}
  BY <1>1
<1>2. CASE U # {}
  <2>1. U \in SUBSET Nat
    OBVIOUS
  <2> HIDE DEF U
  <2>2. PICK x \in U : \A y \in U : x <= y
    BY <1>2, <2>1, LeastOfSome
  <2>3. x \in 1..N /\ x \notin T
    BY <2>2 DEF U
  <2>4. x - 1 \in 0..N /\ x - 1 \notin U
    BY <2>2, <2>3, <2>1
  <2>5. x - 1 \in T
    BY <2>4 DEF U
  <2> QED
    BY <2>3, <2>5
<1> QED
  BY <1>1, <1>2

\* Division with remainder.
LEMMA Division ==
  ASSUME NEW a \in Nat, NEW d \in Nat, d >= 1
  PROVE  a \div d \in Nat /\ a = d * (a \div d) + (a % d) /\ a % d \in Nat /\ a % d < d
<1> DEFINE u == a \div d
           v == a % d
<1>1. d > 0
  OBVIOUS
<1>2. u \in Nat /\ v \in Nat /\ v < d
  BY <1>1
<1>3. a = d * u + v
  BY <1>1
<1> QED
  BY <1>2, <1>3

\* A quotient is what it is multiplied back from.
LEMMA Quotient ==
  ASSUME NEW a \in Nat, NEW d \in Nat, NEW q \in Nat, NEW r \in Nat,
         r < d, a = d * q + r
  PROVE  a \div d = q /\ a % d = r
<1> DEFINE u == a \div d
           v == a % d
<1>1. u \in Nat /\ v \in Nat /\ v < d /\ a = d * u + v
  OBVIOUS
<1> HIDE DEF u, v
<1>2. d * (u - q) = r - v
  BY <1>1
<1>3. CASE u > q
  <2>1. d * (u - q) >= d
    BY <1>1, <1>3
  <2> QED
    BY <1>1, <1>2, <2>1
<1>4. CASE u < q
  <2>1. d * (q - u) >= d
    BY <1>1, <1>4
  <2>2. d * (q - u) = v - r
    BY <1>1
  <2> QED
    BY <1>1, <2>1, <2>2
<1>5. u = q
  BY <1>1, <1>3, <1>4
<1>6. v = r
  BY <1>1, <1>5
<1> QED
  BY <1>5, <1>6 DEF u, v

\* 2^k counts the subsets of a set of k elements; one more doubles them.
LEMMA Power ==
  ASSUME NEW k \in Nat
  PROVE  2^k \in Nat /\ 2^k >= 1 /\ 2^(k + 1) = 2 * 2^k
<1> DEFINE A == 1..k
           P == SUBSET A
           Q == {X \cup {k + 1} : X \in P}
           add == [X \in P |-> X \cup {k + 1}]
<1>1. IsFiniteSet(A) /\ Cardinality(A) = k
  <2>1. IsFiniteSet(A) /\ Cardinality(A) = IF 1 > k THEN 0 ELSE k - 1 + 1
    BY FS_Interval
  <2> QED
    BY <2>1
<1>2. IsFiniteSet(1..(k + 1)) /\ Cardinality(1..(k + 1)) = k + 1
  <2>1. IsFiniteSet(1..(k + 1)) /\ Cardinality(1..(k + 1)) = IF 1 > k + 1 THEN 0 ELSE k + 1 - 1 + 1
    BY FS_Interval
  <2> QED
    BY <2>1
<1>3. IsFiniteSet(P) /\ Cardinality(P) = 2^k
  BY <1>1, FS_SUBSET
<1>4. Cardinality(SUBSET (1..(k + 1))) = 2^(k + 1)
  BY <1>2, FS_SUBSET
<1>5. SUBSET (1..(k + 1)) = P \cup Q
  <2>1. ASSUME NEW Y \in SUBSET (1..(k + 1)) PROVE Y \in P \cup Q
    <3>1. CASE k + 1 \in Y
      <4>1. Y \ {k + 1} \in P
        OBVIOUS
      <4>2. Y = (Y \ {k + 1}) \cup {k + 1}
        BY <3>1
      <4> QED
        BY <4>1, <4>2
    <3>2. CASE k + 1 \notin Y
      BY <3>2
    <3> QED
      BY <3>1, <3>2
  <2>2. P \subseteq SUBSET (1..(k + 1))
    OBVIOUS
  <2>3. Q \subseteq SUBSET (1..(k + 1))
    <3>1. ASSUME NEW X \in P PROVE X \cup {k + 1} \in SUBSET (1..(k + 1))
      <4>1. A \subseteq 1..(k + 1) /\ k + 1 \in 1..(k + 1)
        OBVIOUS
      <4> HIDE DEF A
      <4> QED
        BY <4>1
    <3> QED
      BY <3>1
  <2> QED
    BY <2>1, <2>2, <2>3, Zenon
<1>6. P \cap Q = {}
  <2>1. ASSUME NEW X \in P PROVE k + 1 \notin X
    OBVIOUS
  <2>2. ASSUME NEW X \in Q PROVE k + 1 \in X
    OBVIOUS
  <2> QED
    BY <2>1, <2>2, Zenon
<1>7. ExistsBijection(P, Q)
  <2>1. add \in [P -> Q]
    OBVIOUS
  <2>2. ASSUME NEW X \in P, NEW Y \in P, add[X] = add[Y] PROVE X = Y
    <3>1. X = (X \cup {k + 1}) \ {k + 1} /\ Y = (Y \cup {k + 1}) \ {k + 1}
      OBVIOUS
    <3> QED
      BY <2>2, <3>1
  <2>3. ASSUME NEW Y \in Q PROVE \E X \in P : add[X] = Y
    OBVIOUS
  <2> QED
    BY <2>1, <2>2, <2>3 DEF ExistsBijection, Bijection, Injection, Surjection, IsInjective
<1>8. IsFiniteSet(Q) /\ Cardinality(Q) = 2^k
  BY <1>3, <1>7, FS_Bijection
<1>9. Cardinality(P \cup Q) = 2^k + 2^k - 0
  <2>1. Cardinality(P \cap Q) = 0
    BY <1>6, FS_EmptySet
  <2> HIDE DEF P, Q
  <2>2. Cardinality(P \cup Q) = Cardinality(P) + Cardinality(Q) - Cardinality(P \cap Q)
    BY <1>3, <1>8, FS_Union
  <2> QED
    BY <1>3, <1>8, <2>1, <2>2
<1>10. 2^k \in Nat
  BY <1>3, FS_CardinalityType
<1>11. 2^k >= 1
  <2>1. P # {}
    OBVIOUS
  <2>2. Cardinality(P) # 0
    BY <1>3, <2>1, FS_EmptySet
  <2> QED
    BY <1>3, <1>10, <2>2
<1>12. 2^(k + 1) = 2^k + 2^k - 0
  BY <1>4, <1>5, <1>9
<1> HIDE DEF P, Q, A
<1> QED
  BY <1>12, <1>10, <1>11

\* The powers that occur by themselves.
LEMMA SmallPowers == 2^0 = 1 /\ 2^1 = 2
<1>1. 2^0 = 1
  OBVIOUS
<1>2. 2^(0 + 1) = 2 * 2^0
  BY Power
<1> QED
  BY <1>1, <1>2

\* A power of two with a greater exponent is greater.
LEMMA PowerGrows ==
  ASSUME NEW k \in Nat, NEW j \in 0..k
  PROVE  2^j <= 2^k
<1> DEFINE T == {d \in Nat : 2^(j + d) \in Nat /\ 2^j <= 2^(j + d)}
<1>1. 0 \in T
  <2>1. j + 0 = j /\ 2^j \in Nat
    BY Power
  <2> QED
    BY <2>1
<1>2. ASSUME NEW d \in 1..(k - j), d - 1 \in T PROVE d \in T
  <2>1. j + (d - 1) \in Nat /\ (j + (d - 1)) + 1 = j + d
    OBVIOUS
  <2>2. 2^(j + d) = 2 * 2^(j + (d - 1))
    BY <2>1, Power
  <2>3. 2^j \in Nat
    BY Power
  <2>4. 2^(j + (d - 1)) \in Nat /\ 2^j <= 2^(j + (d - 1))
    BY <1>2
  <2> QED
    BY <2>2, <2>3, <2>4
<1>3. k - j \in Nat /\ j + (k - j) = k
  OBVIOUS
<1> HIDE DEF T
<1>4. 0..(k - j) \subseteq T
  BY <1>1, <1>2, <1>3, UpTo
<1>5. k - j \in T
  BY <1>3, <1>4
<1> QED
  BY <1>3, <1>5 DEF T

\* The product of powers of two.
LEMMA PowerSum ==
  ASSUME NEW j \in Nat, NEW d \in Nat
  PROVE  2^(j + d) = 2^j * 2^d
<1> DEFINE T == {m \in Nat : 2^(j + m) = 2^j * 2^m}
<1>1. 0 \in T
  <2>1. j + 0 = j /\ 2^j \in Nat /\ 2^0 = 1
    BY Power, SmallPowers
  <2> QED
    BY <2>1
<1>2. ASSUME NEW m \in 1..d, m - 1 \in T PROVE m \in T
  <2> DEFINE u == 2^j
             v == 2^(m - 1)
  <2>1. m - 1 \in Nat /\ j + (m - 1) \in Nat /\ (j + (m - 1)) + 1 = j + m /\ (m - 1) + 1 = m
    OBVIOUS
  <2>2. 2^(j + m) = 2 * 2^(j + (m - 1))
    BY <2>1, Power
  <2>3. 2^m = 2 * v /\ v \in Nat
    BY <2>1, Power
  <2>4. u \in Nat
    BY Power
  <2>5. 2^(j + (m - 1)) = u * v
    BY <1>2
  <2> HIDE DEF u, v
  <2>6. 2 * (u * v) = u * (2 * v)
    BY <2>3, <2>4
  <2>7. 2^(j + m) = u * 2^m
    BY <2>2, <2>3, <2>5, <2>6
  <2> QED
    BY <2>7 DEF u
<1> HIDE DEF T
<1>3. 0..d \subseteq T
  BY <1>1, <1>2, UpTo
<1>4. d \in T
  BY <1>3
<1> QED
  BY <1>4 DEF T

-----------------------------------------------------------------------------
(* Bits *)

\* Shifting right by one more bit halves.
LEMMA Halves ==
  ASSUME NEW a \in Nat, NEW k \in Nat
  PROVE  /\ a \div 2^k \in Nat
         /\ a \div 2^0 = a
         /\ a \div 2^(k + 1) = (a \div 2^k) \div 2
<1> DEFINE x == 2^k
           q == a \div x
           r == a % x
           h == q \div 2
           l == q % 2
<1>1. x \in Nat /\ x >= 1 /\ 2^(k + 1) = 2 * x
  BY Power
<1>2. a \div 2^0 = a
  BY SmallPowers
<1> HIDE DEF x
<1>3. q \in Nat /\ r \in 0..(x - 1) /\ a = x * q + r
  BY <1>1
<1> HIDE DEF q, r
<1>4. h \in Nat /\ l \in 0..1 /\ q = 2 * h + l
  BY <1>3
<1> HIDE DEF h, l
<1>5. x * l \in Nat /\ x * l + r < 2 * x /\ x * l + r \in Nat
  <2>1. CASE l = 0
    BY <1>1, <1>3, <2>1
  <2>2. CASE l = 1
    BY <1>1, <1>3, <2>2
  <2> QED
    BY <1>4, <2>1, <2>2
<1>6. a = (2 * x) * h + (x * l + r)
  <2>1. x * q = x * (2 * h) + x * l
    BY <1>1, <1>4
  <2>2. x * (2 * h) = (2 * x) * h
    BY <1>1, <1>4
  <2>3. x * (2 * h) \in Nat
    BY <1>1, <1>4
  <2> QED
    BY <1>3, <1>5, <2>1, <2>2, <2>3
<1>7. 2 * x \in Nat
  BY <1>1
<1>8. a \div (2 * x) = h
  BY <1>4, <1>5, <1>6, <1>7, Quotient
<1>9. q = a \div x /\ h = q \div 2
  BY DEF q, h
<1> QED
  BY <1>1, <1>2, <1>3, <1>8, <1>9 DEF x

\* A number without the bits below k is a multiple of 2^k, and the other way
\* round.
LEMMA NoLowBits ==
  ASSUME NEW a \in Nat, NEW k \in Nat, \A j \in 0..(k - 1) : (a \div 2^j) % 2 = 0
  PROVE  a = 2^k * (a \div 2^k)
<1> DEFINE T == {m \in Nat : a = 2^m * (a \div 2^m)}
<1>1. 0 \in T
  <2>1. 2^0 = 1 /\ a \div 2^0 = a
    BY SmallPowers, Halves
  <2> QED
    BY <2>1
<1>2. ASSUME NEW m \in 1..k, m - 1 \in T PROVE m \in T
  <2> DEFINE u == 2^(m - 1)
             q == a \div u
  <2>1. m - 1 \in Nat /\ (m - 1) + 1 = m /\ m - 1 \in 0..(k - 1)
    OBVIOUS
  <2>2. u \in Nat /\ 2^m = 2 * u
    BY <2>1, Power
  <2>3. q \in Nat /\ a \div 2^m = q \div 2
    BY <2>1, Halves
  <2>4. q % 2 = 0
    BY <2>1
  <2>5. a = u * q
    BY <1>2
  <2> HIDE DEF u, q
  <2>6. q = 2 * (q \div 2) /\ q \div 2 \in Nat
    BY <2>3, <2>4
  <2>7. a = (2 * u) * (q \div 2)
    BY <2>2, <2>5, <2>6
  <2> QED
    BY <2>2, <2>3, <2>7
<1> HIDE DEF T
<1>3. 0..k \subseteq T
  BY <1>1, <1>2, UpTo
<1>4. k \in T
  BY <1>3
<1> QED
  BY <1>4 DEF T

LEMMA MultipleNoLowBits ==
  ASSUME NEW x \in Nat, NEW k \in Nat, NEW j \in 0..(k - 1)
  PROVE  ((2^k * x) \div 2^j) % 2 = 0
<1> DEFINE u == 2^j
           v == 2^(k - (j + 1))
           w == v * x
<1>1. k - (j + 1) \in Nat /\ j + 1 \in Nat /\ (j + 1) + (k - (j + 1)) = k /\ j \in Nat
  OBVIOUS
<1>2. 2^k = 2^(j + 1) * v
  BY <1>1, PowerSum
<1>3. 2^(j + 1) = 2 * u /\ u \in Nat /\ u >= 1 /\ v \in Nat
  BY <1>1, Power
<1> HIDE DEF u, v
<1>4. w \in Nat
  BY <1>3
<1>5. 2^k * x = u * (2 * w)
  <2>1. ((2 * u) * v) * x = u * (2 * (v * x))
    BY <1>3
  <2> QED
    BY <1>2, <1>3, <2>1
<1> HIDE DEF w
<1>6. u * (2 * w) + 0 = u * (2 * w) /\ u * (2 * w) \in Nat /\ 2 * w \in Nat
  BY <1>3, <1>4
<1>7. (u * (2 * w)) \div u = 2 * w
  BY <1>3, <1>6, Quotient
<1>8. (2 * w) % 2 = 0
  BY <1>4
<1> QED
  BY <1>5, <1>7, <1>8 DEF u

\* The numbers an index of Bits bits can be, without 0.
Indexes == {a \in Nat : 1 <= a /\ a < 2^Bits}

LEMMA BitsFinite ==
  ASSUME NEW a \in Nat
  PROVE  IsFiniteSet(BitsOf(a)) /\ lfs_popc64(a) \in Nat
<1>1. Bits - 1 \in Int
  BY CtzAssumption
<1>2. IsFiniteSet(0..(Bits - 1))
  BY <1>1, FS_Interval
<1>3. BitsOf(a) \subseteq 0..(Bits - 1)
  BY DEF BitsOf
<1>4. IsFiniteSet(BitsOf(a))
  BY <1>2, <1>3, FS_Subset
<1> QED
  BY <1>4, FS_CardinalityType DEF lfs_popc64

\* lfs_ctz64 finds the lowest bit.
LEMMA LowestBit ==
  ASSUME NEW a \in Indexes
  PROVE  /\ lfs_ctz64(a) \in 0..(Bits - 1)
         /\ (a \div 2^lfs_ctz64(a)) % 2 = 1
         /\ \A j \in 0..(lfs_ctz64(a) - 1) : (a \div 2^j) % 2 = 0
<1>0. a \in Nat /\ 1 <= a /\ a < 2^Bits /\ Bits \in Nat /\ Bits >= 1
  BY CtzAssumption DEF Indexes
<1>1. ASSUME NEW j \in Nat PROVE (a \div 2^j) % 2 \in {0, 1}
  <2>1. a \div 2^j \in Nat
    BY <1>0, Halves
  <2> QED
    BY <2>1
<1>2. BitsOf(a) # {}
  <2>1. SUFFICES ASSUME BitsOf(a) = {} PROVE FALSE
    OBVIOUS
  <2>2. \A j \in 0..(Bits - 1) : (a \div 2^j) % 2 = 0
    <3>1. ASSUME NEW j \in 0..(Bits - 1) PROVE (a \div 2^j) % 2 = 0
      <4>1. j \notin BitsOf(a)
        BY <2>1
      <4>2. (a \div 2^j) % 2 # 1
        BY <4>1 DEF BitsOf
      <4>3. j \in Nat
        BY <1>0
      <4> QED
        BY <4>2, <4>3, <1>1
    <3> QED
      BY <3>1
  <2> DEFINE x == 2^Bits
             q == a \div x
  <2>3. a = x * q
    BY <2>2, <1>0, NoLowBits
  <2>4. x \in Nat /\ q \in Nat
    BY <1>0, Power, Halves
  <2>5. a < x
    BY <1>0
  <2> HIDE DEF x, q
  <2>6. CASE q = 0
    BY <1>0, <2>3, <2>4, <2>6
  <2>7. CASE q >= 1
    <3>1. x * q >= x
      BY <2>4, <2>7
    <3> QED
      BY <2>3, <2>5, <3>1, <2>4
  <2> QED
    BY <2>4, <2>6, <2>7
<1>3. BitsOf(a) \in SUBSET Nat
  BY <1>0 DEF BitsOf
<1>4. \E k \in BitsOf(a) : \A j \in BitsOf(a) : k <= j
  BY <1>2, <1>3, LeastOfSome
<1> DEFINE k == lfs_ctz64(a)
<1>5. k \in BitsOf(a) /\ \A j \in BitsOf(a) : k <= j
  BY <1>2, <1>4 DEF lfs_ctz64
<1>6. k \in 0..(Bits - 1) /\ (a \div 2^k) % 2 = 1
  BY <1>5 DEF BitsOf
<1> HIDE DEF k
<1>7. ASSUME NEW j \in 0..(k - 1) PROVE (a \div 2^j) % 2 = 0
  <2>1. j \in 0..(Bits - 1) /\ j \in Nat /\ ~(k <= j)
    BY <1>0, <1>6
  <2>2. j \notin BitsOf(a)
    BY <1>5, <2>1
  <2> QED
    BY <1>1, <2>1, <2>2 DEF BitsOf
<1> QED
  BY <1>6, <1>7 DEF k

\* A multiple of 2^m has no bit below m.
LEMMA LowestBitOfMultiple ==
  ASSUME NEW m \in Nat, NEW x \in Nat, 2^m * x \in Indexes
  PROVE  lfs_ctz64(2^m * x) >= m
<1> DEFINE a == 2^m * x
           k == lfs_ctz64(a)
<1>1. k \in 0..(Bits - 1) /\ (a \div 2^k) % 2 = 1
  BY LowestBit
<1>2. ASSUME k < m PROVE FALSE
  <2>1. k \in 0..(m - 1)
    BY <1>1, <1>2, CtzAssumption
  <2>2. (a \div 2^k) % 2 = 0
    BY <2>1, MultipleNoLowBits
  <2> QED
    BY <1>1, <2>2
<1> QED
  BY <1>1, <1>2, CtzAssumption

\* Counting up by one clears the bits below the lowest one of the sum and
\* sets that one.
LEMMA BitsBefore ==
  ASSUME NEW i \in Indexes
  PROVE  BitsOf(i - 1) = (BitsOf(i) \ {lfs_ctz64(i)}) \cup (0..(lfs_ctz64(i) - 1))
<1> DEFINE k == lfs_ctz64(i)
           d(j) == i \div 2^j
           e(j) == (i - 1) \div 2^j
<1>0. i \in Nat /\ i - 1 \in Nat /\ i >= 1 /\ Bits \in Nat
  BY CtzAssumption DEF Indexes
<1>1. k \in 0..(Bits - 1) /\ d(k) % 2 = 1 /\ \A j \in 0..(k - 1) : d(j) % 2 = 0
  BY LowestBit
<1>2. k \in Nat
  BY <1>0, <1>1
<1> HIDE DEF k
<1>3. ASSUME NEW j \in Nat
      PROVE  /\ d(j) \in Nat /\ d(j + 1) = d(j) \div 2
             /\ e(j) \in Nat /\ e(j + 1) = e(j) \div 2
  BY <1>0, Halves
<1>4. d(0) = i /\ e(0) = i - 1
  BY <1>0, Halves
<1> HIDE DEF d, e
<1>5. \A j \in 0..k : e(j) = d(j) - 1
  <2> DEFINE T == {j \in Nat : e(j) = d(j) - 1}
  <2>1. 0 \in T
    BY <1>4
  <2>2. ASSUME NEW j \in 1..k, j - 1 \in T PROVE j \in T
    <3>1. j - 1 \in Nat /\ j - 1 \in 0..(k - 1) /\ (j - 1) + 1 = j
      BY <1>2
    <3>2. d(j) = d(j - 1) \div 2 /\ e(j) = e(j - 1) \div 2 /\ d(j - 1) \in Nat /\ e(j - 1) \in Nat
      BY <3>1, <1>3
    <3>3. d(j - 1) % 2 = 0 /\ e(j - 1) = d(j - 1) - 1
      BY <3>1, <1>1, <2>2
    <3>4. e(j) = d(j) - 1
      BY <3>2, <3>3
    <3> QED
      BY <3>4
  <2> HIDE DEF T
  <2>3. 0..k \subseteq T
    BY <1>2, <2>1, <2>2, UpTo
  <2> QED
    BY <2>3 DEF T
<1>6. \A j \in (k + 1)..Bits : e(j) = d(j)
  <2> DEFINE T == {m \in Nat : e(k + 1 + m) = d(k + 1 + m)}
  <2>1. 0 \in T
    <3>1. d(k + 1) = d(k) \div 2 /\ e(k + 1) = e(k) \div 2 /\ d(k) \in Nat /\ e(k) \in Nat
      BY <1>2, <1>3
    <3>2. e(k) = d(k) - 1 /\ d(k) % 2 = 1
      BY <1>1, <1>2, <1>5
    <3>3. e(k + 1) = d(k + 1)
      BY <3>1, <3>2
    <3>4. k + 1 + 0 = k + 1
      BY <1>2
    <3> QED
      BY <3>3, <3>4
  <2>2. ASSUME NEW m \in 1..Bits, m - 1 \in T PROVE m \in T
    <3>1. k + 1 + (m - 1) \in Nat /\ (k + 1 + (m - 1)) + 1 = k + 1 + m
      BY <1>0, <1>2
    <3>2. d(k + 1 + m) = d(k + 1 + (m - 1)) \div 2 /\ e(k + 1 + m) = e(k + 1 + (m - 1)) \div 2
      BY <3>1, <1>3
    <3> QED
      BY <2>2, <3>2
  <2> HIDE DEF T
  <2>3. 0..Bits \subseteq T
    BY <1>0, <2>1, <2>2, UpTo
  <2>4. ASSUME NEW j \in (k + 1)..Bits PROVE e(j) = d(j)
    <3>1. j - (k + 1) \in 0..Bits /\ k + 1 + (j - (k + 1)) = j
      BY <1>0, <1>2
    <3>2. j - (k + 1) \in T
      BY <3>1, <2>3
    <3> QED
      BY <3>1, <3>2 DEF T
  <2> QED
    BY <2>4
<1>7. ASSUME NEW j \in 0..(Bits - 1)
      PROVE  e(j) % 2 = 1 <=> (d(j) % 2 = 1 /\ j # k) \/ j \in 0..(k - 1)
  <2>1. CASE j \in 0..(k - 1)
    <3>1. e(j) = d(j) - 1 /\ d(j) % 2 = 0 /\ j \in Nat
      BY <1>1, <1>2, <1>5, <2>1
    <3>2. d(j) \in Nat /\ e(j) \in Nat
      BY <1>3, <3>1
    <3>3. e(j) % 2 = 1
      BY <3>1, <3>2
    <3> QED
      BY <2>1, <3>3
  <2>2. CASE j = k
    <3>1. e(j) = d(j) - 1 /\ d(j) % 2 = 1 /\ j \in Nat
      BY <1>1, <1>2, <1>5, <2>2
    <3>2. d(j) \in Nat /\ e(j) \in Nat
      BY <1>3, <3>1
    <3>3. e(j) % 2 = 0
      BY <3>1, <3>2
    <3> QED
      BY <1>2, <2>2, <3>3
  <2>3. CASE j > k
    <3>1. e(j) = d(j)
      BY <1>0, <1>2, <1>6, <2>3
    <3> QED
      BY <1>2, <2>3, <3>1
  <2> QED
    BY <1>0, <1>2, <2>1, <2>2, <2>3
<1>8. BitsOf(i) = {j \in 0..(Bits - 1) : d(j) % 2 = 1} /\ BitsOf(i - 1) = {j \in 0..(Bits - 1) : e(j) % 2 = 1}
  BY DEF BitsOf, d, e
<1>9. 0..(k - 1) \subseteq 0..(Bits - 1)
  BY <1>0, <1>1
<1>10. BitsOf(i - 1) = (BitsOf(i) \ {k}) \cup (0..(k - 1))
  BY <1>7, <1>8, <1>9
<1> QED
  BY <1>10 DEF k

LEMMA PopcountBefore ==
  ASSUME NEW i \in Indexes
  PROVE  /\ lfs_ctz64(i) \in Nat
         /\ lfs_popc64(i) \in Nat /\ lfs_popc64(i) >= 1
         /\ lfs_popc64(i - 1) \in Nat
         /\ lfs_popc64(i - 1) = lfs_popc64(i) - 1 + lfs_ctz64(i)
<1> DEFINE k == lfs_ctz64(i)
           A == BitsOf(i)
           B == A \ {k}
           C == 0..(k - 1)
<1>0. i \in Nat /\ i - 1 \in Nat /\ Bits \in Nat
  BY CtzAssumption DEF Indexes
<1>1. k \in 0..(Bits - 1) /\ (i \div 2^k) % 2 = 1 /\ \A j \in 0..(k - 1) : (i \div 2^j) % 2 = 0
  BY LowestBit
<1>2. k \in A /\ k \in Nat
  BY <1>0, <1>1 DEF BitsOf
<1>3. A \cap C = {}
  <2>1. ASSUME NEW j \in A, j \in C PROVE FALSE
    BY <1>1, <2>1 DEF BitsOf
  <2> QED
    BY <2>1
<1>4. IsFiniteSet(A) /\ Cardinality(A) \in Nat
  BY <1>0, BitsFinite DEF lfs_popc64
<1>5. BitsOf(i - 1) = B \cup C
  BY BitsBefore
<1>6. Cardinality(BitsOf(i - 1)) \in Nat
  BY <1>0, BitsFinite DEF lfs_popc64
<1> HIDE DEF k, A
<1>7. IsFiniteSet(B) /\ Cardinality(B) = Cardinality(A) - 1
  BY <1>2, <1>4, FS_RemoveElement
<1>8. IsFiniteSet(C) /\ Cardinality(C) = k
  <2>1. k - 1 \in Int
    BY <1>2
  <2>2. IsFiniteSet(C) /\ Cardinality(C) = IF 0 > k - 1 THEN 0 ELSE k - 1 - 0 + 1
    BY <2>1, FS_Interval
  <2> QED
    BY <1>2, <2>2
<1>9. Cardinality(B \cap C) = 0
  <2>1. B \cap C = {}
    BY <1>3
  <2> QED
    BY <2>1, FS_EmptySet
<1> HIDE DEF B, C
<1>10. Cardinality(B \cup C) = Cardinality(B) + Cardinality(C) - Cardinality(B \cap C)
  BY <1>7, <1>8, FS_Union
<1>11. Cardinality(B \cup C) = Cardinality(A) - 1 + k
  BY <1>2, <1>4, <1>7, <1>8, <1>9, <1>10
<1>12. Cardinality(A) # 0
  BY <1>2, <1>4, FS_EmptySet
<1>13. lfs_popc64(i) = Cardinality(A) /\ lfs_popc64(i - 1) = Cardinality(B \cup C)
  BY <1>5 DEF lfs_popc64, A
<1>14. lfs_popc64(i - 1) \in Nat
  BY <1>6 DEF lfs_popc64
<1>15. Cardinality(A) \in Nat /\ Cardinality(A) >= 1
  BY <1>4, <1>12
<1>16. lfs_ctz64(i) = k
  BY DEF k
<1> QED
  BY <1>2, <1>11, <1>13, <1>14, <1>15, <1>16

LEMMA PopcountOfZero == lfs_popc64(0) = 0
<1>1. BitsOf(0) = {}
  <2>1. ASSUME NEW k \in 0..(Bits - 1) PROVE (0 \div 2^k) % 2 = 0
    <3>1. k \in Nat
      BY CtzAssumption
    <3>2. 2^k \in Nat /\ 2^k >= 1
      BY <3>1, Power
    <3> DEFINE x == 2^k
    <3> HIDE DEF x
    <3>3. x \in Nat /\ 0 < x /\ 0 = x * 0 + 0
      BY <3>2 DEF x
    <3>4. 0 \div x = 0
      BY <3>3, Quotient
    <3>5. 0 \div 2^k = 0
      BY <3>4 DEF x
    <3>6. 0 % 2 = 0
      OBVIOUS
    <3> QED
      BY <3>5, <3>6, Zenon
  <2>2. ASSUME NEW k \in BitsOf(0) PROVE FALSE
    <3>1. k \in 0..(Bits - 1) /\ (0 \div 2^k) % 2 = 1
      BY DEF BitsOf
    <3>2. (0 \div 2^k) % 2 = 0
      BY <2>1, <3>1
    <3> QED
      BY <3>1, <3>2
  <2> QED
    BY <2>2
<1> QED
  BY <1>1, FS_EmptySet DEF lfs_popc64

\* The pointer lfs_ctz_find follows is one of the block's, and does not lead
\* past the block that is looked for.
LEMMA SkipInReach ==
  ASSUME NEW c \in Indexes, NEW t \in Nat, t < c
  PROVE  /\ Skip(c, t) \in 0..lfs_ctz64(c)
         /\ 2^Skip(c, t) \in Nat
         /\ 1 <= 2^Skip(c, t) /\ 2^Skip(c, t) <= c - t
<1> DEFINE a == c - t + 1
           m == lfs_npw2_64(a)
           n == m - 1
           z == lfs_ctz64(c)
<1>0. c \in Nat /\ c < 2^Bits /\ a \in Nat /\ a >= 2 /\ a <= 2^Bits /\ Bits \in Nat /\ 2^Bits \in Nat
  <2>1. Bits \in Nat
    BY CtzAssumption
  <2>2. 2^Bits \in Nat
    BY <2>1, Power
  <2> QED
    BY <2>1, <2>2 DEF Indexes
<1>1. z \in Nat
  BY LowestBit, CtzAssumption
<1>2. \E k \in 0..Bits : 2^k >= a /\ \A j \in 0..(k - 1) : 2^j < a
  <2> DEFINE T == {k \in Nat : 2^k >= a}
  <2>1. Bits \in T
    BY <1>0
  <2> HIDE DEF T
  <2>2. T \in SUBSET Nat /\ T # {}
    BY <2>1 DEF T
  <2>3. PICK k \in T : \A j \in T : k <= j
    BY <2>2, LeastOfSome
  <2>4. k \in 0..Bits
    BY <1>0, <2>1, <2>2, <2>3
  <2>5. ASSUME NEW j \in 0..(k - 1) PROVE 2^j < a
    <3>1. j \in Nat /\ ~(k <= j)
      BY <2>4
    <3>2. j \notin T /\ 2^j \in Nat
      BY <2>3, <3>1, Power
    <3> QED
      BY <1>0, <3>1, <3>2 DEF T
  <2> QED
    BY <2>3, <2>4, <2>5 DEF T
<1>3. m \in 0..Bits /\ 2^m >= a /\ \A j \in 0..(m - 1) : 2^j < a
  <2>1. a # 1
    BY <1>0
  <2>2. m = CHOOSE k \in 0..Bits : 2^k >= a /\ \A j \in 0..(k - 1) : 2^j < a
    BY <2>1 DEF lfs_npw2_64
  <2> HIDE DEF m, a
  <2> QED
    BY <1>2, <2>2
<1> HIDE DEF m, a, z
<1>4. m # 0
  <2>1. CASE m = 0
    <3>1. 2^m = 1
      BY <2>1, SmallPowers
    <3> QED
      BY <1>0, <1>3, <3>1
  <2> QED
    BY <2>1
<1>5. n \in Nat /\ 2^n \in Nat /\ 2^n < a
  <2>1. n \in Nat /\ n \in 0..(m - 1)
    BY <1>0, <1>3, <1>4
  <2> QED
    BY <1>3, <2>1, Power
<1>6. Skip(c, t) = IF n < z THEN n ELSE z
  BY DEF Skip, m, z, a
<1> DEFINE s == Skip(c, t)
<1> HIDE DEF s
<1>7. s \in Nat /\ s <= n /\ s <= z
  <2>1. s = IF n < z THEN n ELSE z
    BY <1>6 DEF s
  <2> HIDE DEF n
  <2> QED
    BY <1>1, <1>5, <2>1
<1>8. 2^s \in Nat /\ 1 <= 2^s
  BY <1>7, Power
<1>9. 2^s <= 2^n
  <2>1. s \in 0..n
    BY <1>5, <1>7
  <2> QED
    BY <1>5, <2>1, PowerGrows
<1>10. a = c - t + 1
  BY DEF a
<1> HIDE DEF n
<1>11. 2^s <= c - t
  BY <1>0, <1>5, <1>8, <1>9, <1>10
<1> QED
  BY <1>1, <1>7, <1>8, <1>11 DEF s, z

-----------------------------------------------------------------------------
(* Positions *)

\* A block has room for the pointers that lfs_ctz_index expects in it, as far
\* as the file can grow, and an index has bits for its blocks.  With pointers
\* of 8 bytes, blocks of 128 bytes keep this up to block 8190, blocks of 512
\* bytes up to block 2^61 - 2.
RoomForPointers ==
  /\ MaxSize < 2^Bits
  /\ \A i \in 0..(MaxSize \div (BlockSize - 2 * PtrSize)) :
        PtrSize * (lfs_popc64(i) + 4) <= BlockSize

\* Position p is byte o of block i: in front of it are the data of blocks
\* 0..i-1 and the pointers of block i.
At(p, i, o) ==
  /\ i \in Nat
  /\ o \in Nat
  /\ PtrSize * Pointers(i) <= o
  /\ o < BlockSize
  /\ p = (BlockSize - 2 * PtrSize) * i + PtrSize * lfs_popc64(i) + o

\* The blocks of a file are counted with Bits bits.
LEMMA IndexBound ==
  ASSUME RoomForPointers, NEW p \in 0..MaxSize, NEW i \in Nat,
         p >= (BlockSize - 2 * PtrSize) * i
  PROVE  /\ i \in 0..(MaxSize \div (BlockSize - 2 * PtrSize))
         /\ i = 0 \/ i \in Indexes
         /\ PtrSize * (lfs_popc64(i) + 4) <= BlockSize
<1> DEFINE b == BlockSize - 2 * PtrSize
           q == MaxSize \div b
<1>1. b \in Nat /\ b >= 1 /\ MaxSize \in Nat /\ PtrSize \in Nat /\ PtrSize >= 1 /\ MaxSize < 2^Bits
  BY CtzAssumption, CtzListAssumption DEF RoomForPointers
<1>2. p >= b * i
  OBVIOUS
<1> HIDE DEF b
<1>3. q \in Nat /\ MaxSize = b * q + (MaxSize % b) /\ MaxSize % b \in Nat /\ MaxSize % b < b
  <2>1. MaxSize \div b \in Nat /\ MaxSize = b * (MaxSize \div b) + (MaxSize % b)
        /\ MaxSize % b \in Nat /\ MaxSize % b < b
    BY <1>1, Division
  <2> QED
    BY <2>1
<1> HIDE DEF q
<1>4. i <= q
  <2>1. SUFFICES ASSUME i >= q + 1 PROVE FALSE
    BY <1>3
  <2>2. b * i >= b * (q + 1)
    BY <1>1, <1>3, <2>1
  <2>3. b * (q + 1) = b * q + b
    BY <1>1, <1>3
  <2> QED
    BY <1>1, <1>2, <1>3, <2>2, <2>3
<1>5. i \in 0..q
  BY <1>3, <1>4
<1>6. i <= b * i
  BY <1>1
<1>7. i < 2^Bits
  <2>1. Bits \in Nat
    BY CtzAssumption
  <2>2. 2^Bits \in Nat
    BY <2>1, Power
  <2> QED
    BY <1>1, <1>2, <1>6, <2>2
<1>8. i = 0 \/ i \in Indexes
  BY <1>7 DEF Indexes
<1>9. PtrSize * (lfs_popc64(i) + 4) <= BlockSize
  BY <1>5 DEF RoomForPointers, q, b
<1> QED
  BY <1>5, <1>8, <1>9 DEF q, b

\* How many pointers a block has, in terms of the population counts.
LEMMA PointersOf ==
  ASSUME NEW i \in Indexes
  PROVE  /\ Pointers(i) = lfs_ctz64(i) + 1
         /\ Pointers(i) \in Nat \ {0}
         /\ Pointers(i) = lfs_popc64(i - 1) - lfs_popc64(i) + 2
<1>1. i # 0
  BY DEF Indexes
<1>2. lfs_ctz64(i) \in Nat /\ lfs_popc64(i) \in Nat /\ lfs_popc64(i - 1) \in Nat
      /\ lfs_popc64(i - 1) = lfs_popc64(i) - 1 + lfs_ctz64(i)
  BY PopcountBefore
<1> QED
  BY <1>1, <1>2 DEF Pointers

\* lfs_ctz_index finds the block of a position and the offset in it.
LEMMA IndexRight ==
  ASSUME RoomForPointers, NEW p \in 0..MaxSize, NEW i, NEW o, At(p, i, o)
  PROVE  lfs_ctz_index(p) = <<i, o>>
<1> DEFINE b == BlockSize - 2 * PtrSize
           u == PtrSize * lfs_popc64(i)
           g == p \div b
           e == p - PtrSize * (lfs_popc64(g - 1) + 2)
<1>1. b \in Nat /\ b >= 1 /\ BlockSize \in Nat /\ PtrSize \in Nat /\ PtrSize >= 1 /\ BlockSize = b + 2 * PtrSize
  BY CtzAssumption
<1>2. p \in Nat /\ i \in Nat /\ o \in Nat /\ PtrSize * Pointers(i) <= o /\ o < BlockSize /\ p = b * i + u + o
  BY CtzListAssumption DEF At
<1>3. lfs_popc64(i) \in Nat
  BY <1>2, BitsFinite
<1> DEFINE c == lfs_popc64(i)
<1>4. u \in Nat /\ PtrSize * (c + 2) = u + 2 * PtrSize /\ PtrSize * (c + 4) = u + 4 * PtrSize
  <2> HIDE DEF c
  <2>1. c \in Nat
    BY <1>3 DEF c
  <2>2. PtrSize * c \in Nat /\ PtrSize * (c + 2) = PtrSize * c + 2 * PtrSize
        /\ PtrSize * (c + 4) = PtrSize * c + 4 * PtrSize
    BY <1>1, <2>1
  <2> QED
    BY <2>2 DEF c
<1>5. b * i \in Nat
  BY <1>1, <1>2
<1>6. p >= b * i
  BY <1>2, <1>4, <1>5
<1>7. (i = 0 \/ i \in Indexes) /\ PtrSize * (c + 4) <= BlockSize
  BY <1>2, <1>6, IndexBound
<1>8. u + 2 * PtrSize <= b
  BY <1>1, <1>4, <1>7
<1>9. lfs_ctz_index(p) = IF g = 0 THEN <<0, p>> ELSE <<e \div b, p - b * (e \div b) - PtrSize * lfs_popc64(e \div b)>>
  BY DEF lfs_ctz_index
<1>10. e \div b = i => p - b * (e \div b) - PtrSize * lfs_popc64(e \div b) = o
  <2>1. ASSUME e \div b = i PROVE p - b * (e \div b) - PtrSize * lfs_popc64(e \div b) = p - b * i - u
    BY <2>1
  <2>2. p - b * i - u = o
    <3> HIDE DEF u, b
    <3> QED
      BY <1>2, <1>4, <1>5
  <2> QED
    BY <2>1, <2>2
<1>11. CASE u + o >= b
  <2>1. g = i + 1
    <3>1. p = b * (i + 1) + (u + o - b)
      <4>1. b * (i + 1) = b * i + b
        BY <1>1, <1>2
      <4> HIDE DEF u, b
      <4> QED
        BY <1>1, <1>2, <1>4, <1>5, <4>1
    <3> HIDE DEF u, b
    <3>2. u + o - b \in Nat /\ u + o - b < b /\ i + 1 \in Nat
      BY <1>1, <1>2, <1>4, <1>8, <1>11
    <3> QED
      BY <1>1, <1>2, <3>1, <3>2, Quotient
  <2>2. g # 0 /\ g - 1 = i
    <3> HIDE DEF g
    <3> QED
      BY <1>2, <2>1
  <2>3. e = b * i + (o - 2 * PtrSize)
    <3>1. e = p - PtrSize * (c + 2)
      BY <2>2
    <3> HIDE DEF u, b, e, c
    <3> QED
      BY <1>1, <1>2, <1>4, <1>5, <3>1
  <2>4. e \div b = i
    <3> HIDE DEF u, b, e
    <3>1. o - 2 * PtrSize \in Nat /\ o - 2 * PtrSize < b /\ e \in Nat
      BY <1>1, <1>2, <1>4, <1>5, <1>8, <1>11, <2>3
    <3> QED
      BY <1>1, <1>2, <2>3, <3>1, Quotient
  <2> QED
    BY <1>9, <1>10, <2>2, <2>4
<1>12. CASE u + o < b
  <2>1. g = i
    <3> HIDE DEF u, b
    <3>1. u + o \in Nat /\ p = b * i + (u + o)
      BY <1>1, <1>2, <1>4, <1>5
    <3> QED
      BY <1>1, <1>2, <1>12, <3>1, Quotient
  <2>2. CASE i = 0
    <3>1. u = 0
      <4>1. c = 0
        BY <2>2, PopcountOfZero
      <4> QED
        BY <1>1, <4>1
    <3>2. b * i = 0
      BY <1>1, <2>2
    <3>3. p = o
      <4> HIDE DEF u, b
      <4> QED
        BY <1>2, <3>1, <3>2
    <3> QED
      BY <1>9, <2>1, <2>2, <3>3
  <2>3. CASE i # 0
    <3> DEFINE v == PtrSize * lfs_popc64(i - 1)
    <3>1. i \in Indexes /\ lfs_popc64(i - 1) \in Nat
      BY <1>7, <2>3, PopcountBefore
    <3>2. Pointers(i) = lfs_popc64(i - 1) - c + 2
      BY <3>1, PointersOf
    <3>3. PtrSize * (lfs_popc64(i - 1) + 2) = v + 2 * PtrSize /\ v \in Nat
      BY <1>1, <3>1
    <3>4. PtrSize * Pointers(i) = v - u + 2 * PtrSize
      BY <1>1, <1>3, <3>1, <3>2
    <3>5. e = p - (v + 2 * PtrSize)
      BY <2>1, <3>3
    <3>6. PtrSize * Pointers(i) >= 0
      <4>1. Pointers(i) \in Nat
        BY <3>1, PointersOf
      <4> QED
        BY <1>1, <4>1
    <3> HIDE DEF u, v, b, e
    <3>7. e = b * i + (u + o - v - 2 * PtrSize)
      BY <1>1, <1>2, <1>4, <1>5, <3>3, <3>5
    <3>8. u + o - v - 2 * PtrSize \in Nat /\ u + o - v - 2 * PtrSize < b
      BY <1>1, <1>2, <1>4, <1>12, <3>3, <3>4
    <3>9. e \in Nat
      BY <1>1, <1>2, <1>5, <3>7, <3>8
    <3>10. e \div b = i
      BY <1>1, <1>2, <3>7, <3>8, <3>9, Quotient
    <3> QED
      BY <1>9, <1>10, <2>1, <2>3, <3>10
  <2> QED
    BY <2>2, <2>3
<1> QED
  BY <1>1, <1>2, <1>4, <1>11, <1>12

\* The next position is in the same block, or the first behind the pointers of
\* the next one.
LEMMA NextPosition ==
  ASSUME RoomForPointers, NEW p \in Nat, p < MaxSize, NEW i, NEW o, At(p, i, o)
  PROVE  /\ o + 1 < BlockSize => At(p + 1, i, o + 1)
         /\ o + 1 = BlockSize => At(p + 1, i + 1, PtrSize * Pointers(i + 1))
<1> DEFINE b == BlockSize - 2 * PtrSize
           c == lfs_popc64(i)
           u == PtrSize * c
<1>1. b \in Nat /\ b >= 1 /\ BlockSize \in Nat /\ PtrSize \in Nat /\ PtrSize >= 1 /\ BlockSize = b + 2 * PtrSize
  BY CtzAssumption
<1>2. p \in Nat /\ i \in Nat /\ o \in Nat /\ PtrSize * Pointers(i) <= o /\ o < BlockSize /\ p = b * i + u + o
  BY DEF At
<1>3. c \in Nat
  BY <1>2, BitsFinite
<1>4. u \in Nat /\ b * i \in Nat
  <2> HIDE DEF c, b
  <2> QED
    BY <1>1, <1>2, <1>3
<1>5. ASSUME o + 1 < BlockSize PROVE At(p + 1, i, o + 1)
  <2>1. p + 1 = b * i + u + (o + 1)
    <3> HIDE DEF b, u
    <3> QED
      BY <1>2, <1>4
  <2>2. PtrSize * Pointers(i) <= o + 1
    <3>1. Pointers(i) \in Int
      <4>1. p \in 0..MaxSize /\ p >= b * i
        <5> HIDE DEF b, u
        <5> QED
          BY <1>2, <1>4, CtzListAssumption
      <4>2. i = 0 \/ i \in Indexes
        BY <1>2, <4>1, IndexBound
      <4>3. CASE i = 0
        BY <4>3 DEF Pointers
      <4>4. CASE i \in Indexes
        BY <4>4, PointersOf
      <4> QED
        BY <4>2, <4>3, <4>4
    <3>2. PtrSize * Pointers(i) \in Int
      BY <1>1, <3>1
    <3> QED
      BY <1>2, <3>2
  <2> QED
    BY <1>2, <1>5, <2>1, <2>2 DEF At
<1>6. ASSUME o + 1 = BlockSize PROVE At(p + 1, i + 1, PtrSize * Pointers(i + 1))
  <2> DEFINE d == lfs_popc64(i + 1)
             w == PtrSize * d
             n == Pointers(i + 1)
  <2>1. b * (i + 1) = b * i + b
    <3> HIDE DEF b
    <3> QED
      BY <1>1, <1>2
  <2>2. p + 1 >= b * (i + 1) /\ p + 1 \in 0..MaxSize /\ i + 1 \in Nat
    <3> HIDE DEF b, u
    <3> QED
      BY <1>1, <1>2, <1>4, <1>6, <2>1, CtzListAssumption
  <2>3. i + 1 = 0 \/ i + 1 \in Indexes
    BY <2>2, IndexBound
  <2>4. i + 1 \in Indexes /\ (i + 1) - 1 = i
    BY <1>2, <2>3
  <2>5. n \in Nat \ {0} /\ n = lfs_popc64((i + 1) - 1) - d + 2 /\ d \in Nat /\ d >= 1
    BY <2>4, PointersOf, PopcountBefore
  <2>6. n = c - d + 2 /\ n <= c + 1
    <3>1. n = c - d + 2
      BY <2>4, <2>5
    <3> HIDE DEF n, c, d
    <3> QED
      BY <1>3, <2>5, <3>1
  <2>8. PtrSize * (c + 4) <= BlockSize
    <3>1. p \in 0..MaxSize /\ p >= b * i
      <4> HIDE DEF b, u
      <4> QED
        BY <1>2, <1>4, CtzListAssumption
    <3> QED
      BY <1>2, <3>1, IndexBound
  <2> HIDE DEF n, c, d
  <2>9. PtrSize * n = u - w + 2 * PtrSize /\ w \in Nat /\ u \in Nat /\ PtrSize * n \in Nat
    <3>1. PtrSize * (c - d + 2) = PtrSize * c - PtrSize * d + 2 * PtrSize
      BY <1>1, <1>3, <2>5
    <3>2. w \in Nat /\ PtrSize * n \in Nat
      BY <1>1, <2>5
    <3> QED
      BY <1>4, <2>6, <3>1, <3>2
  <2>10. PtrSize * n <= PtrSize * (c + 1) /\ PtrSize * (c + 1) < PtrSize * (c + 4)
         /\ PtrSize * (c + 1) \in Nat /\ PtrSize * (c + 4) \in Nat
    BY <1>1, <1>3, <2>5, <2>6
  <2>11. PtrSize * n < BlockSize
    BY <1>1, <2>8, <2>9, <2>10
  <2>12. p + 1 = b * (i + 1) + w + PtrSize * n
    <3> HIDE DEF b, u, w
    <3> QED
      BY <1>1, <1>2, <1>4, <1>6, <2>1, <2>9
  <2> DEFINE m == PtrSize * n
  <2>13. m \in Nat /\ m < BlockSize /\ p + 1 = b * (i + 1) + w + m /\ m <= m
    BY <2>9, <2>11, <2>12
  <2> QED
    BY <2>2, <2>13 DEF At, n, d
<1> QED
  BY <1>5, <1>6

\* Position 0 is the first byte of block 0.
LEMMA FirstPosition ==
  At(0, 0, 0)
<1>1. Pointers(0) = 0 /\ lfs_popc64(0) = 0
  BY PopcountOfZero DEF Pointers
<1>2. PtrSize * 0 = 0 /\ (BlockSize - 2 * PtrSize) * 0 = 0 /\ 0 < BlockSize
  BY CtzAssumption
<1> QED
  BY <1>1, <1>2 DEF At

\* Every position of a file has its block and its offset.
LEMMA PositionAt ==
  ASSUME RoomForPointers, NEW p \in 0..MaxSize
  PROVE  /\ At(p, Index(p), Offset(p))
         /\ lfs_ctz_index(p) = <<Index(p), Offset(p)>>
<1> DEFINE T == {q \in Nat : \E i, o : At(q, i, o)}
<1>0. MaxSize \in Nat
  BY CtzListAssumption
<1>1. 0 \in T
  BY FirstPosition
<1>2. ASSUME NEW q \in 1..MaxSize, q - 1 \in T PROVE q \in T
  <2>1. PICK i, o : At(q - 1, i, o)
    BY <1>2
  <2>2. q - 1 \in Nat /\ q - 1 < MaxSize /\ (q - 1) + 1 = q /\ q \in Nat
    BY <1>0
  <2>3. o \in Nat /\ o < BlockSize
    BY <2>1 DEF At
  <2>4. o + 1 < BlockSize \/ o + 1 = BlockSize
    BY <2>3, CtzAssumption
  <2>5. CASE o + 1 < BlockSize
    <3>1. At(q - 1 + 1, i, o + 1)
      BY <2>1, <2>2, <2>5, NextPosition
    <3> QED
      BY <2>2, <3>1
  <2>6. CASE o + 1 = BlockSize
    <3>1. At(q - 1 + 1, i + 1, PtrSize * Pointers(i + 1))
      BY <2>1, <2>2, <2>6, NextPosition
    <3> QED
      BY <2>2, <3>1
  <2> QED
    BY <2>4, <2>5, <2>6
<1> HIDE DEF T
<1>3. 0..MaxSize \subseteq T
  BY <1>0, <1>1, <1>2, UpTo
<1>4. PICK i, o : At(p, i, o)
  BY <1>3 DEF T
<1>5. lfs_ctz_index(p) = <<i, o>>
  BY <1>4, IndexRight
<1>6. Index(p) = i /\ Offset(p) = o
  BY <1>5 DEF Index, Offset
<1> QED
  BY <1>4, <1>5, <1>6

\* A later position is in the same block or in a later one.
LEMMA IndexGrows ==
  ASSUME RoomForPointers, NEW n \in 0..MaxSize, NEW p \in 0..n
  PROVE  Index(p) \in Nat /\ Index(n) \in Nat /\ Index(p) <= Index(n)
<1>0. MaxSize \in Nat
  BY CtzListAssumption
<1>1. ASSUME NEW q \in 0..MaxSize PROVE Index(q) \in Nat
  <2>1. At(q, Index(q), Offset(q))
    BY PositionAt
  <2> QED
    BY <2>1 DEF At
<1> DEFINE T == {d \in Nat : p + d <= MaxSize => Index(p) <= Index(p + d)}
<1>2. 0 \in T
  <2>1. p + 0 = p /\ Index(p) \in Nat
    BY <1>0, <1>1
  <2> QED
    BY <2>1
<1>3. ASSUME NEW d \in 1..(n - p), d - 1 \in T PROVE d \in T
  <2> DEFINE q == p + (d - 1)
  <2>1. q \in 0..MaxSize /\ q < MaxSize /\ q + 1 = p + d /\ q + 1 \in 0..MaxSize /\ d \in Nat /\ q \in Nat
    BY <1>0
  <2>2. Index(p) <= Index(q)
    BY <1>3, <2>1
  <2> HIDE DEF q
  <2>3. At(q, Index(q), Offset(q))
    BY <2>1, PositionAt
  <2>4. Offset(q) \in Nat /\ Offset(q) < BlockSize
    BY <2>3 DEF At
  <2>5. Index(q) <= Index(q + 1)
    <3>1. CASE Offset(q) + 1 < BlockSize
      <4>1. At(q + 1, Index(q), Offset(q) + 1)
        BY <2>1, <2>3, <3>1, NextPosition
      <4>2. lfs_ctz_index(q + 1) = <<Index(q), Offset(q) + 1>>
        BY <2>1, <4>1, IndexRight
      <4>3. Index(q + 1) = Index(q)
        BY <4>2 DEF Index
      <4> QED
        BY <1>1, <2>1, <4>3
    <3>2. CASE Offset(q) + 1 = BlockSize
      <4>1. At(q + 1, Index(q) + 1, PtrSize * Pointers(Index(q) + 1))
        BY <2>1, <2>3, <3>2, NextPosition
      <4>2. lfs_ctz_index(q + 1) = <<Index(q) + 1, PtrSize * Pointers(Index(q) + 1)>>
        BY <2>1, <4>1, IndexRight
      <4>3. Index(q + 1) = Index(q) + 1
        BY <4>2 DEF Index
      <4> QED
        BY <1>1, <2>1, <4>3
    <3> QED
      BY <2>4, <3>1, <3>2, CtzAssumption
  <2>6. Index(p) \in Nat /\ Index(q) \in Nat /\ Index(q + 1) \in Nat
    BY <1>0, <1>1, <2>1
  <2>7. Index(p) <= Index(p + d)
    BY <2>1, <2>2, <2>5, <2>6
  <2> QED
    BY <2>1, <2>7
<1> HIDE DEF T
<1>4. n - p \in Nat /\ p + (n - p) = n /\ n <= MaxSize
  BY <1>0
<1>5. 0..(n - p) \subseteq T
  BY <1>2, <1>3, <1>4, UpTo
<1>6. n - p \in T
  BY <1>4, <1>5
<1> QED
  BY <1>0, <1>1, <1>4, <1>6 DEF T

-----------------------------------------------------------------------------
(* Lists *)

\* P has the pointers of the list c: block i points to block i - 2^(k-1) with
\* its k-th pointer.
ListIn(P, c) ==
  /\ c \in Seq(Blocks)
  /\ \A i \in 1..(Len(c) - 1) :
       /\ i \in Indexes
       /\ Len(P[c[i + 1]]) = Pointers(i)
       /\ \A k \in 1..Pointers(i) : P[c[i + 1]][k] = c[i - 2^(k - 1) + 1]

\* The pointers of block i do not lead past block 0.
LEMMA PointerInReach ==
  ASSUME NEW i \in Indexes, NEW k \in 1..Pointers(i)
  PROVE  2^(k - 1) \in Nat /\ 1 <= 2^(k - 1) /\ 2^(k - 1) <= i
<1> DEFINE z == lfs_ctz64(i)
           x == 2^z
           q == i \div x
<1>1. z \in 0..(Bits - 1) /\ q % 2 = 1 /\ \A j \in 0..(z - 1) : (i \div 2^j) % 2 = 0
  BY LowestBit
<1>2. i \in Nat /\ z \in Nat
  BY <1>1, CtzAssumption DEF Indexes
<1>3. Pointers(i) = z + 1
  BY PointersOf
<1> HIDE DEF z
<1>4. k - 1 \in Nat /\ k - 1 \in 0..z
  BY <1>2, <1>3
<1>5. 2^(k - 1) \in Nat /\ 1 <= 2^(k - 1) /\ 2^(k - 1) <= x /\ x \in Nat
  BY <1>2, <1>4, Power, PowerGrows
<1>6. i = x * q
  BY <1>1, <1>2, NoLowBits
<1>7. q \in Nat
  BY <1>2, Halves
<1> HIDE DEF q, x
<1>8. q >= 1
  <2>1. q # 0
    BY <1>1
  <2> QED
    BY <1>7, <2>1
<1>9. x <= i
  BY <1>5, <1>6, <1>7, <1>8
<1> QED
  BY <1>2, <1>5, <1>9

\* A pointer of a block of the list is read as it was written.
LEMMA PointerRead ==
  ASSUME NEW c, ListIn(ptrs, c), NEW i \in 1..(Len(c) - 1), NEW k \in 1..Pointers(i)
  PROVE  /\ Pointer(c[i + 1], k) = c[i - 2^(k - 1) + 1]
         /\ i - 2^(k - 1) \in 0..(i - 1)
         /\ i - 2^(k - 1) \in 0..(Len(c) - 1)
<1>1. Len(c) \in Nat /\ i \in Nat /\ i \in Indexes
  BY DEF ListIn
<1>2. 2^(k - 1) \in Nat /\ 1 <= 2^(k - 1) /\ 2^(k - 1) <= i
  BY <1>1, PointerInReach
<1>3. Len(ptrs[c[i + 1]]) = Pointers(i) /\ ptrs[c[i + 1]][k] = c[i - 2^(k - 1) + 1]
  BY DEF ListIn
<1>4. k <= Len(ptrs[c[i + 1]])
  <2>1. Pointers(i) \in Nat
    BY <1>1, PointersOf
  <2> QED
    BY <1>3, <2>1
<1>5. i - 2^(k - 1) \in 0..(i - 1) /\ i - 2^(k - 1) \in 0..(Len(c) - 1)
  BY <1>1, <1>2
<1> QED
  BY <1>3, <1>4, <1>5 DEF Pointer

\* The rounds of a loop that goes from a to F[a] and on: each has a state.
Rounds(S, a, F, N) ==
  \E g : /\ g = [k \in 0..N |-> IF k = 0 THEN a ELSE F[g[k - 1]]]
         /\ \A k \in 0..N : g[k] \in S

LEMMA Loop ==
  ASSUME NEW S, NEW a \in S, NEW F \in [S -> S], NEW N \in Nat
  PROVE  Rounds(S, a, F, N)
<1> DEFINE G(n) == {g \in [0..n -> S] : g[0] = a /\ \A k \in 1..n : g[k] = F[g[k - 1]]}
           T == {n \in Nat : G(n) # {}}
<1>1. 0 \in T
  <2>1. [k \in 0..0 |-> a] \in G(0)
    OBVIOUS
  <2> QED
    BY <2>1
<1>2. ASSUME NEW n \in 1..N, n - 1 \in T PROVE n \in T
  <2>1. PICK g \in G(n - 1) : TRUE
    BY <1>2
  <2> DEFINE f == [k \in 0..n |-> IF k = n THEN F[g[n - 1]] ELSE g[k]]
  <2>2. n \in Nat /\ n - 1 \in 0..(n - 1) /\ g \in [0..(n - 1) -> S]
    OBVIOUS
  <2>3. f \in [0..n -> S]
    <3>1. ASSUME NEW k \in 0..n PROVE (IF k = n THEN F[g[n - 1]] ELSE g[k]) \in S
      <4>1. CASE k = n
        BY <2>2, <4>1
      <4>2. CASE k # n
        <5>1. k \in 0..(n - 1)
          BY <4>2
        <5> QED
          BY <2>2, <4>2, <5>1
      <4> QED
        BY <4>1, <4>2
    <3> QED
      BY <3>1
  <2>4. f[0] = a
    <3>1. 0 \in 0..n /\ 0 # n
      OBVIOUS
    <3> QED
      BY <3>1
  <2>5. ASSUME NEW k \in 1..n PROVE f[k] = F[f[k - 1]]
    <3>1. k \in 0..n /\ k - 1 \in 0..n /\ k - 1 # n
      OBVIOUS
    <3>2. f[k - 1] = g[k - 1]
      BY <3>1
    <3>3. CASE k = n
      BY <3>1, <3>2, <3>3
    <3>4. CASE k # n
      <4>1. k \in 1..(n - 1)
        BY <3>4
      <4>2. g[k] = F[g[k - 1]]
        BY <4>1
      <4> QED
        BY <3>1, <3>2, <3>4, <4>2
    <3> QED
      BY <3>3, <3>4
  <2> HIDE DEF f
  <2>6. f \in G(n)
    BY <2>3, <2>4, <2>5
  <2> QED
    BY <2>2, <2>6
<1> HIDE DEF T
<1>3. 0..N \subseteq T
  BY <1>1, <1>2, UpTo
<1>4. PICK g \in G(N) : TRUE
  BY <1>3 DEF T
<1>5. g \in [0..N -> S] /\ g[0] = a /\ \A k \in 1..N : g[k] = F[g[k - 1]]
  BY <1>4
<1>6. ASSUME NEW k \in 0..N PROVE g[k] = IF k = 0 THEN a ELSE F[g[k - 1]]
  <2>1. CASE k = 0
    BY <1>5, <2>1
  <2>2. CASE k # 0
    <3>1. k \in 1..N
      BY <2>2
    <3> QED
      BY <1>5, <2>2, <3>1
  <2> QED
    BY <2>1, <2>2
<1>7. g = [k \in 0..N |-> IF k = 0 THEN a ELSE F[g[k - 1]]]
  BY <1>5, <1>6
<1> QED
  BY <1>5, <1>7 DEF Rounds

\* Following a list from its last block finds the block of every position.
LEMMA FindsBlock ==
  ASSUME RoomForPointers, NEW c, ListIn(ptrs, c),
         NEW n \in 1..MaxSize, Len(c) = Index(n - 1) + 1, NEW p \in 0..(n - 1)
  PROVE  lfs_ctz_find(c[Len(c)], n, p) = c[Index(p) + 1]
<1> DEFINE last == Index(n - 1)
           target == Index(p)
           h == c[Len(c)]
           w0 == [at |-> last, block |-> h]
           next(w) == IF w.at <= target \/ w.block = NullBlock THEN w
                      ELSE [at |-> w.at - 2^Skip(w.at, target),
                            block |-> Pointer(w.block, Skip(w.at, target) + 1)]
           S == {[at |-> i, block |-> c[i + 1]] : i \in 0..last}
           F == [w \in S |-> next(w)]
           Walk[k \in 0..last] ==
             IF k = 0 THEN w0
             ELSE LET w == Walk[k - 1]
                      s == Skip(w.at, target)
                  IN  IF w.at <= target \/ w.block = NullBlock THEN w
                      ELSE [at |-> w.at - 2^s, block |-> Pointer(w.block, s + 1)]
<1>1. lfs_ctz_find(h, n, p) = Walk[last].block
  <2>1. n # 0
    OBVIOUS
  <2> QED
    BY <2>1, Zenon DEF lfs_ctz_find
<1>2. last \in Nat /\ target \in Nat /\ target <= last
  <2>1. n - 1 \in 0..MaxSize /\ p \in 0..(n - 1)
    BY CtzListAssumption
  <2> QED
    BY <2>1, IndexGrows
<1>3. Len(c) = last + 1 /\ c \in Seq(Blocks)
  BY DEF ListIn
<1> HIDE DEF last, target
<1>4. ASSUME NEW i \in 0..last PROVE c[i + 1] \in Blocks /\ c[i + 1] # NullBlock
  <2>1. i + 1 \in 1..Len(c)
    BY <1>2, <1>3
  <2> QED
    BY <1>3, <2>1, CtzListAssumption
<1>5. ASSUME NEW i \in 0..last, NEW w, w = [at |-> i, block |-> c[i + 1]]
      PROVE  \E j \in 0..last : /\ next(w) = [at |-> j, block |-> c[j + 1]]
                                /\ i <= target => j = i
                                /\ i > target => j >= target /\ j <= i - 1
  <2>0. w.at = i /\ w.block = c[i + 1]
    BY <1>5
  <2>1. CASE i <= target
    <3>1. next(w) = w
      BY <2>0, <2>1
    <3> HIDE DEF next
    <3>2. ~(i > target)
      BY <1>2, <2>1
    <3> QED
      BY <1>5, <3>1, <3>2
  <2>2. CASE i > target
    <3> DEFINE s == Skip(i, target)
               j == i - 2^s
    <3>1. i \in 1..(Len(c) - 1) /\ i \in Indexes
      BY <1>2, <1>3, <2>2 DEF ListIn
    <3>2. s \in 0..lfs_ctz64(i) /\ 2^s \in Nat /\ 1 <= 2^s /\ 2^s <= i - target
      BY <1>2, <2>2, <3>1, SkipInReach
    <3>3. s + 1 \in 1..Pointers(i)
      <4>1. Pointers(i) = lfs_ctz64(i) + 1 /\ lfs_ctz64(i) \in Nat
        BY <3>1, PointersOf, PopcountBefore
      <4> QED
        BY <3>2, <4>1
    <3>4. (s + 1) - 1 = s
      BY <3>2
    <3>5. Pointer(c[i + 1], s + 1) = c[i - 2^((s + 1) - 1) + 1]
      BY <3>1, <3>3, PointerRead
    <3>6. Pointer(c[i + 1], s + 1) = c[j + 1]
      BY <3>4, <3>5
    <3>7. ~(i <= target) /\ c[i + 1] # NullBlock
      BY <1>2, <1>4, <2>2
    <3>8. next(w) = [at |-> j, block |-> c[j + 1]]
      BY <2>0, <3>6, <3>7
    <3>9. j \in 0..last /\ j >= target /\ j <= i - 1
      BY <1>2, <3>2
    <3>10. i > target /\ ~(i <= target)
      BY <2>2, <3>7
    <3> HIDE DEF next, j
    <3> QED
      BY <3>8, <3>9, <3>10
  <2>3. i <= target \/ i > target
    BY <1>2
  <2> QED
    BY <2>1, <2>2, <2>3
<1>6. F \in [S -> S]
  <2>1. ASSUME NEW w \in S PROVE next(w) \in S
    <3>1. PICK i \in 0..last : w = [at |-> i, block |-> c[i + 1]]
      OBVIOUS
    <3>2. PICK j \in 0..last : next(w) = [at |-> j, block |-> c[j + 1]]
      BY <1>5, <3>1
    <3> HIDE DEF next
    <3> QED
      BY <3>2
  <2> HIDE DEF S, next
  <2> QED
    BY <2>1
<1>7. w0 \in S
  <2>1. w0 = [at |-> last, block |-> c[last + 1]] /\ last \in 0..last
    BY <1>2, <1>3
  <2> QED
    BY <2>1
<1> HIDE DEF S, F, w0
<1>8. Rounds(S, w0, F, last)
  BY <1>2, <1>6, <1>7, Loop, Zenon
<1>9. PICK g : /\ g = [k \in 0..last |-> IF k = 0 THEN w0 ELSE F[g[k - 1]]]
                /\ \A k \in 0..last : g[k] \in S
  BY <1>8, Zenon DEF Rounds
<1>10. g = [k \in 0..last |-> IF k = 0 THEN w0 ELSE next(g[k - 1])]
  <2>1. ASSUME NEW k \in 0..last
        PROVE  (IF k = 0 THEN w0 ELSE F[g[k - 1]]) = (IF k = 0 THEN w0 ELSE next(g[k - 1]))
    <3>1. CASE k = 0
      BY <3>1
    <3>2. CASE k # 0
      <4>1. k - 1 \in 0..last
        BY <1>2, <3>2
      <4>2. g[k - 1] \in S
        BY <1>9, <4>1
      <4> HIDE DEF next
      <4>3. F[g[k - 1]] = next(g[k - 1])
        BY <4>2 DEF F
      <4> QED
        BY <3>2, <4>3
    <3> QED
      BY <3>1, <3>2
  <2> HIDE DEF next
  <2>2. [k \in 0..last |-> IF k = 0 THEN w0 ELSE F[g[k - 1]]]
        = [k \in 0..last |-> IF k = 0 THEN w0 ELSE next(g[k - 1])]
    BY <2>1
  <2> QED
    BY <1>9, <2>2, Zenon
<1>11. Walk = [k \in 0..last |-> IF k = 0 THEN w0 ELSE next(Walk[k - 1])]
  <2>1. \E f : f = [k \in 0..last |-> IF k = 0 THEN w0 ELSE next(f[k - 1])]
    BY <1>10
  <2>2. Walk = CHOOSE f : f = [k \in 0..last |-> IF k = 0 THEN w0 ELSE next(f[k - 1])]
    BY Zenon
  <2> HIDE DEF Walk, next
  <2> QED
    BY <2>1, <2>2
<1> HIDE DEF Walk
<1> DEFINE Seen(k) == \E i \in 0..last : /\ Walk[k] = [at |-> i, block |-> c[i + 1]]
                                         /\ i >= target
                                         /\ i = target \/ i <= last - k
           T == {k \in 0..last : Seen(k)}
<1>12. 0 \in T
  <2>1. Walk[0] = w0
    <3>1. 0 \in 0..last
      BY <1>2
    <3> HIDE DEF next
    <3> QED
      BY <1>11, <3>1
  <2>2. w0 = [at |-> last, block |-> c[last + 1]]
    BY <1>3 DEF w0
  <2>3. last \in 0..last /\ last >= target /\ last <= last - 0 /\ 0 \in 0..last
    BY <1>2
  <2> QED
    BY <2>1, <2>2, <2>3
<1>13. ASSUME NEW k \in 1..last, k - 1 \in T PROVE k \in T
  <2>1. k \in 0..last /\ k # 0 /\ k - 1 \in 0..last
    BY <1>2
  <2>2. Walk[k] = next(Walk[k - 1])
    <3> HIDE DEF next
    <3> QED
      BY <1>11, <2>1
  <2>3. Seen(k - 1)
    BY <1>13
  <2>4. PICK i \in 0..last : /\ Walk[k - 1] = [at |-> i, block |-> c[i + 1]]
                             /\ i >= target
                             /\ i = target \/ i <= last - (k - 1)
    BY <2>3
  <2>5. PICK j \in 0..last : /\ next(Walk[k - 1]) = [at |-> j, block |-> c[j + 1]]
                             /\ i <= target => j = i
                             /\ i > target => j >= target /\ j <= i - 1
    BY <1>5, <2>4
  <2> HIDE DEF next
  <2>6. j >= target /\ (j = target \/ j <= last - k)
    BY <1>2, <2>4, <2>5
  <2> QED
    BY <2>1, <2>2, <2>5, <2>6
<1> HIDE DEF T, Seen
<1>14. 0..last \subseteq T
  BY <1>2, <1>12, <1>13, UpTo
<1>15. Seen(last)
  BY <1>2, <1>14 DEF T
<1>16. PICK i \in 0..last : /\ Walk[last] = [at |-> i, block |-> c[i + 1]]
                            /\ i >= target
                            /\ i = target \/ i <= last - last
  BY <1>15 DEF Seen
<1>17. i = target
  BY <1>2, <1>16
<1>18. Walk[last].block = c[target + 1]
  BY <1>16, <1>17
<1> QED
  BY <1>1, <1>18 DEF target

\* The first pointers of a block lead to the block before it and, where there
\* are two, to the one before that.
LEMMA FirstPointers ==
  ASSUME NEW c, ListIn(ptrs, c), NEW i \in 1..(Len(c) - 1)
  PROVE  /\ Pointer(c[i + 1], 1) = c[(i - 1) + 1]
         /\ i % 2 = 0 => i >= 2 /\ Pointer(c[i + 1], 2) = c[(i - 2) + 1]
<1>1. i \in Nat /\ i \in Indexes
  BY DEF ListIn
<1> DEFINE z == lfs_ctz64(i)
<1>2. Pointers(i) = z + 1 /\ z \in Nat
  BY <1>1, PointersOf, PopcountBefore
<1>3. 2^(1 - 1) = 1 /\ 2^(2 - 1) = 2
  <2>1. 1 - 1 = 0 /\ 2 - 1 = 1
    OBVIOUS
  <2> QED
    BY <2>1, SmallPowers
<1>4. Pointer(c[i + 1], 1) = c[i - 2^(1 - 1) + 1]
  <2>1. 1 \in 1..Pointers(i)
    BY <1>2
  <2> QED
    BY <2>1, PointerRead
<1>5. ASSUME i % 2 = 0 PROVE i >= 2 /\ Pointer(c[i + 1], 2) = c[i - 2^(2 - 1) + 1]
  <2>1. z # 0
    <3>1. CASE z = 0
      <4>1. (i \div 2^z) % 2 = 1
        BY <1>1, LowestBit
      <4>2. i \div 2^0 = i
        BY <1>1, Halves
      <4>3. i % 2 = 1
        BY <3>1, <4>1, <4>2
      <4> QED
        BY <1>5, <4>3
    <3> QED
      BY <3>1
  <2>2. 2 \in 1..Pointers(i)
    BY <1>2, <2>1
  <2>3. Pointer(c[i + 1], 2) = c[i - 2^(2 - 1) + 1]
    BY <2>2, PointerRead
  <2>4. i # 1
    BY <1>5
  <2> QED
    BY <1>1, <2>3, <2>4
<1>6. i - 2^(1 - 1) = i - 1 /\ i - 2^(2 - 1) = i - 2
  BY <1>3
<1> QED
  BY <1>4, <1>5, <1>6

\* A traversal reports the blocks of the list, all of them and no others.
LEMMA TraversesList ==
  ASSUME RoomForPointers, NEW c, ListIn(ptrs, c),
         NEW n \in 1..MaxSize, Len(c) = Index(n - 1) + 1
  PROVE  lfs_ctz_traverse(c[Len(c)], n) = ToSet(c)
<1> DEFINE last == Index(n - 1)
           h == c[Len(c)]
           w0 == [at |-> last, block |-> h, seen |-> {h}]
           next(v) == IF v.at = 0 \/ v.block = NullBlock THEN v
                      ELSE [at |-> v.at - (2 - (v.at % 2)), block |-> Pointer(v.block, 2 - (v.at % 2)),
                            seen |-> v.seen \cup {Pointer(v.block, 1), Pointer(v.block, 2 - (v.at % 2))}]
           All == ToSet(c)
           State(i, X) == [at |-> i, block |-> c[i + 1], seen |-> X]
           S == {State(i, X) : i \in 0..last, X \in SUBSET All}
           F == [v \in S |-> next(v)]
           Visit[k \in 0..last] ==
             IF k = 0 THEN w0
             ELSE LET v == Visit[k - 1]
                      count == 2 - (v.at % 2)
                  IN  IF v.at = 0 \/ v.block = NullBlock THEN v
                      ELSE [at |-> v.at - count, block |-> Pointer(v.block, count),
                            seen |-> v.seen \cup {Pointer(v.block, 1), Pointer(v.block, count)}]
<1>1. lfs_ctz_traverse(h, n) = Visit[last].seen
  <2>1. n # 0
    OBVIOUS
  <2> QED
    BY <2>1, Zenon DEF lfs_ctz_traverse
<1>2. last \in Nat
  <2>1. n - 1 \in 0..MaxSize /\ 0 \in 0..(n - 1)
    BY CtzListAssumption
  <2> QED
    BY <2>1, IndexGrows
<1>3. Len(c) = last + 1 /\ c \in Seq(Blocks)
  BY DEF ListIn
<1> HIDE DEF last
<1>4. ASSUME NEW i \in 0..last PROVE c[i + 1] \in Blocks /\ c[i + 1] # NullBlock /\ c[i + 1] \in All
  <2>1. i + 1 \in 1..Len(c)
    BY <1>2, <1>3
  <2>2. c[i + 1] \in Blocks
    BY <1>3, <2>1
  <2>3. c[i + 1] \in All
    BY <1>3, <2>1 DEF ToSet
  <2> QED
    BY <2>2, <2>3, CtzListAssumption
<1>5. All = {c[i + 1] : i \in 0..last}
  <2>1. ASSUME NEW x \in All PROVE \E i \in 0..last : x = c[i + 1]
    <3>1. PICK k \in 1..Len(c) : x = c[k]
      BY <1>3 DEF ToSet
    <3>2. k - 1 \in 0..last /\ (k - 1) + 1 = k
      BY <1>2, <1>3
    <3> QED
      BY <3>1, <3>2
  <2> HIDE DEF All
  <2> QED
    BY <1>4, <2>1
<1> HIDE DEF All
<1>6. ASSUME NEW i \in 0..last, NEW X \in SUBSET All, NEW v, v = State(i, X)
      PROVE  \E j \in 0..last : \E Y \in SUBSET All :
               /\ next(v) = State(j, Y)
               /\ X \subseteq Y
               /\ i = 0 => j = 0
               /\ i # 0 => j <= i - 1
               /\ \A m \in j..(i - 1) : c[m + 1] \in Y
  <2>0. v.at = i /\ v.block = c[i + 1] /\ v.seen = X
    BY <1>6
  <2>1. CASE i = 0
    <3>1. next(v) = v
      BY <2>0, <2>1
    <3> HIDE DEF next, State
    <3> QED
      BY <1>2, <1>6, <2>1, <3>1
  <2>2. CASE i # 0
    <3> DEFINE count == 2 - (i % 2)
               j == i - count
               Y == X \cup {Pointer(c[i + 1], 1), Pointer(c[i + 1], count)}
    <3>1. i \in 1..(Len(c) - 1)
      BY <1>2, <1>3, <2>2
    <3>2. Pointer(c[i + 1], 1) = c[(i - 1) + 1]
          /\ (i % 2 = 0 => i >= 2 /\ Pointer(c[i + 1], 2) = c[(i - 2) + 1])
      BY <3>1, FirstPointers
    <3>3. /\ count = 1 \/ (count = 2 /\ i >= 2)
          /\ Pointer(c[i + 1], count) = c[j + 1]
      <4>1. CASE i % 2 = 0
        <5>1. count = 2
          BY <4>1
        <5> HIDE DEF count
        <5> QED
          BY <3>2, <4>1, <5>1
      <4>2. CASE i % 2 # 0
        <5>1. count = 1
          BY <1>2, <4>2
        <5> HIDE DEF count
        <5>2. j = i - 1
          BY <5>1
        <5> HIDE DEF j
        <5>3. Pointer(c[i + 1], count) = c[j + 1]
          <6> DEFINE r == i - 1
          <6>1. Pointer(c[i + 1], 1) = c[r + 1] /\ j = r
            BY <3>2, <5>2
          <6> HIDE DEF r
          <6> QED
            BY <5>1, <6>1
        <5> QED
          BY <5>1, <5>3
      <4> QED
        BY <4>1, <4>2
    <3>4. c[i + 1] # NullBlock
      BY <1>4
    <3>5. next(v) = State(j, Y)
      BY <2>0, <2>2, <3>3, <3>4
    <3> HIDE DEF next, State, count
    <3>6. j \in 0..last /\ j <= i - 1 /\ i - 1 \in 0..last
      BY <1>2, <2>2, <3>3
    <3>7. Y \in SUBSET All
      <4>1. c[(i - 1) + 1] \in All /\ c[j + 1] \in All
        BY <1>4, <3>6
      <4> QED
        BY <3>2, <3>3, <4>1
    <3>8. ASSUME NEW m \in j..(i - 1) PROVE c[m + 1] \in Y
      <4>1. m = j \/ m = i - 1
        BY <1>2, <3>3, <3>6
      <4>2. c[j + 1] \in Y /\ c[(i - 1) + 1] \in Y
        BY <3>2, <3>3
      <4> QED
        BY <4>1, <4>2
    <3>9. X \subseteq Y
      OBVIOUS
    <3> HIDE DEF Y, j
    <3> QED
      BY <2>2, <3>5, <3>6, <3>7, <3>8, <3>9
  <2> QED
    BY <2>1, <2>2
<1>7. F \in [S -> S]
  <2>1. ASSUME NEW v \in S PROVE next(v) \in S
    <3> HIDE DEF next
    <3>1. PICK i \in 0..last, X \in SUBSET All : v = State(i, X)
      <4> HIDE DEF State
      <4> QED
        OBVIOUS
    <3>2. PICK j \in 0..last, Y \in SUBSET All : next(v) = State(j, Y)
      <4> HIDE DEF State
      <4> QED
        BY <1>6, <3>1
    <3> HIDE DEF State
    <3> QED
      BY <3>2
  <2> HIDE DEF S, next
  <2> QED
    BY <2>1
<1>8. w0 \in S /\ w0 = State(last, {h}) /\ h \in All /\ h = c[last + 1] /\ last \in 0..last
  <2>1. h = c[last + 1] /\ last \in 0..last
    BY <1>2, <1>3
  <2>2. h \in All
    BY <1>4, <2>1
  <2>3. w0 = State(last, {h}) /\ {h} \in SUBSET All
    BY <2>1, <2>2
  <2> HIDE DEF w0, h, State
  <2> QED
    BY <2>1, <2>2, <2>3
<1> HIDE DEF S, F, w0, h, State
<1>9. Rounds(S, w0, F, last)
  BY <1>2, <1>7, <1>8, Loop, Zenon
<1>10. PICK g : /\ g = [k \in 0..last |-> IF k = 0 THEN w0 ELSE F[g[k - 1]]]
                /\ \A k \in 0..last : g[k] \in S
  BY <1>9, Zenon DEF Rounds
<1>11. g = [k \in 0..last |-> IF k = 0 THEN w0 ELSE next(g[k - 1])]
  <2>1. ASSUME NEW k \in 0..last
        PROVE  (IF k = 0 THEN w0 ELSE F[g[k - 1]]) = (IF k = 0 THEN w0 ELSE next(g[k - 1]))
    <3>1. CASE k = 0
      BY <3>1
    <3>2. CASE k # 0
      <4>1. k - 1 \in 0..last
        BY <1>2, <3>2
      <4>2. g[k - 1] \in S
        BY <1>10, <4>1
      <4> HIDE DEF next
      <4>3. F[g[k - 1]] = next(g[k - 1])
        BY <4>2 DEF F
      <4> QED
        BY <3>2, <4>3
    <3> QED
      BY <3>1, <3>2
  <2> HIDE DEF next
  <2>2. [k \in 0..last |-> IF k = 0 THEN w0 ELSE F[g[k - 1]]]
        = [k \in 0..last |-> IF k = 0 THEN w0 ELSE next(g[k - 1])]
    BY <2>1
  <2> QED
    BY <1>10, <2>2, Zenon
<1>12. Visit = [k \in 0..last |-> IF k = 0 THEN w0 ELSE next(Visit[k - 1])]
  <2>1. \E f : f = [k \in 0..last |-> IF k = 0 THEN w0 ELSE next(f[k - 1])]
    BY <1>11
  <2>2. Visit = CHOOSE f : f = [k \in 0..last |-> IF k = 0 THEN w0 ELSE next(f[k - 1])]
    BY Zenon
  <2> HIDE DEF Visit, next
  <2> QED
    BY <2>1, <2>2
<1> HIDE DEF Visit
<1> DEFINE Seen(k) == \E i \in 0..last : \E X \in SUBSET All :
                        /\ Visit[k] = State(i, X)
                        /\ i = 0 \/ i <= last - k
                        /\ \A m \in i..last : c[m + 1] \in X
           T == {k \in 0..last : Seen(k)}
<1>13. 0 \in T
  <2>1. Visit[0] = w0
    <3>1. 0 \in 0..last
      BY <1>2
    <3> HIDE DEF next
    <3> QED
      BY <1>12, <3>1
  <2>2. last <= last - 0 /\ 0 \in 0..last /\ {h} \in SUBSET All
    BY <1>2, <1>8
  <2>3. \A m \in last..last : c[m + 1] \in {h}
    BY <1>2, <1>8
  <2> QED
    BY <1>8, <2>1, <2>2, <2>3
<1>14. ASSUME NEW k \in 1..last, k - 1 \in T PROVE k \in T
  <2>1. k \in 0..last /\ k # 0 /\ k - 1 \in 0..last
    BY <1>2
  <2>2. Visit[k] = next(Visit[k - 1])
    <3> HIDE DEF next
    <3> QED
      BY <1>12, <2>1
  <2>3. Seen(k - 1)
    BY <1>14
  <2> HIDE DEF next
  <2>4. PICK i \in 0..last, X \in SUBSET All :
               /\ Visit[k - 1] = State(i, X)
               /\ i = 0 \/ i <= last - (k - 1)
               /\ \A m \in i..last : c[m + 1] \in X
    BY <2>3, Zenon
  <2>5. PICK j \in 0..last, Y \in SUBSET All :
               /\ next(Visit[k - 1]) = State(j, Y)
               /\ X \subseteq Y
               /\ i = 0 => j = 0
               /\ i # 0 => j <= i - 1
               /\ \A m \in j..(i - 1) : c[m + 1] \in Y
    BY <1>6, <2>4
  <2>6. j = 0 \/ j <= last - k
    BY <1>2, <2>4, <2>5
  <2>7. ASSUME NEW m \in j..last PROVE c[m + 1] \in Y
    <3>1. CASE m \in j..(i - 1)
      BY <2>5, <3>1
    <3>2. CASE m \in i..last
      BY <2>4, <2>5, <3>2
    <3> QED
      BY <1>2, <3>1, <3>2
  <2> QED
    BY <2>1, <2>2, <2>5, <2>6, <2>7
<1> HIDE DEF T, Seen
<1>15. 0..last \subseteq T
  BY <1>2, <1>13, <1>14, UpTo
<1>16. Seen(last)
  BY <1>2, <1>15 DEF T
<1>17. PICK i \in 0..last, X \in SUBSET All :
         /\ Visit[last] = State(i, X)
         /\ i = 0 \/ i <= last - last
         /\ \A m \in i..last : c[m + 1] \in X
  BY <1>16, Zenon DEF Seen
<1>18. i = 0
  BY <1>2, <1>17
<1>19. X = All
  BY <1>5, <1>17, <1>18
<1>20. Visit[last].seen = All
  BY <1>17, <1>19 DEF State
<1> QED
  BY <1>1, <1>20 DEF All, h

\* A block's pointers are what lfs_ctz_extend gathers for it: each pointer is
\* found in the block that the one before leads to.
LEMMA ExtensionOf ==
  ASSUME NEW c, ListIn(ptrs, c), NEW index \in Indexes, Len(c) = index
  PROVE  /\ Extension(c[index], index) = [k \in 1..Pointers(index) |-> c[index - 2^(k - 1) + 1]]
         /\ \A k \in 1..Pointers(index) : index - 2^(k - 1) + 1 \in 1..index
<1> DEFINE N == Pointers(index)
           h == c[index]
           W == [k \in 1..N |-> c[index - 2^(k - 1) + 1]]
           Follow[k \in 1..N] == IF k = 1 THEN h ELSE Pointer(Follow[k - 1], k - 1)
           z == lfs_ctz64(index)
           x == 2^z
           q == index \div x
<1>1. index \in Nat /\ index >= 1 /\ index < 2^Bits /\ z \in Nat /\ N = z + 1 /\ N \in Nat
  <2>1. index \in Nat /\ index >= 1 /\ index < 2^Bits
    BY DEF Indexes
  <2>2. z \in Nat
    BY PopcountBefore
  <2> QED
    BY <2>1, <2>2, PointersOf
<1>2. index = x * q /\ x \in Nat /\ q \in Nat
  <2>1. \A j \in 0..(z - 1) : (index \div 2^j) % 2 = 0
    BY LowestBit
  <2>2. index = 2^z * (index \div 2^z)
    BY <1>1, <2>1, NoLowBits
  <2> QED
    BY <1>1, <2>2, Power, Halves
<1>3. Extension(h, index) = Follow
  BY Zenon DEF Extension
<1>4. ASSUME NEW k \in 1..N
      PROVE  2^(k - 1) \in Nat /\ 1 <= 2^(k - 1) /\ 2^(k - 1) <= index
  BY PointerInReach
<1>5. ASSUME NEW k \in 2..N
      PROVE  Pointer(c[index - 2^((k - 1) - 1) + 1], k - 1) = c[index - 2^(k - 1) + 1]
  <2> DEFINE j == k - 2
             y == 2^j
             i == index - y
             r == 2^(z - j)
  <2>1. j \in Nat /\ (k - 1) - 1 = j /\ k - 1 = j + 1 /\ z - j \in Nat /\ j + (z - j) = z /\ k \in 1..N
    BY <1>1
  <2>2. y \in Nat /\ y >= 1 /\ 2^(k - 1) = 2 * y /\ r \in Nat
    BY <2>1, Power
  <2>3. i \in 1..(Len(c) - 1) /\ i < index
    BY <1>1, <1>4, <2>1, <2>2
  <2>4. x = y * r
    BY <2>1, PowerSum
  <2> DEFINE s == r * q
  <2> HIDE DEF r, x, q
  <2>5. index = y * s /\ s \in Nat
    <3> HIDE DEF y
    <3> QED
      BY <1>2, <2>2, <2>4
  <2> HIDE DEF s
  <2>6. s >= 1
    <3>1. s # 0
      BY <1>1, <2>2, <2>5
    <3> QED
      BY <2>5, <3>1
  <2>7. i = y * (s - 1) /\ s - 1 \in Nat
    <3> HIDE DEF y
    <3>1. y * (s - 1) = y * s - y
      BY <2>2, <2>5
    <3> QED
      BY <2>5, <2>6, <3>1
  <2>8. i \in Indexes
    <3>1. Bits \in Nat
      BY CtzAssumption
    <3>2. 2^Bits \in Nat
      BY <3>1, Power
    <3> QED
      BY <1>1, <2>3, <3>2 DEF Indexes
  <2>9. lfs_ctz64(i) >= j /\ lfs_ctz64(i) \in Nat
    <3>1. lfs_ctz64(2^j * (s - 1)) >= j
      BY <2>1, <2>7, <2>8, LowestBitOfMultiple
    <3>2. lfs_ctz64(i) \in Nat
      BY <2>8, PopcountBefore
    <3> QED
      BY <2>7, <3>1, <3>2
  <2>10. k - 1 \in 1..Pointers(i)
    <3>1. Pointers(i) = lfs_ctz64(i) + 1
      BY <2>8, PointersOf
    <3> QED
      BY <2>1, <2>9, <3>1
  <2>11. Pointer(c[i + 1], k - 1) = c[i - 2^((k - 1) - 1) + 1]
    BY <2>3, <2>10, PointerRead
  <2>12. 2^((k - 1) - 1) = y
    BY <2>1
  <2>13. i - y + 1 = index - 2^(k - 1) + 1
    <3> HIDE DEF y
    <3> QED
      BY <1>1, <2>2
  <2>14. index - 2^((k - 1) - 1) + 1 = i + 1
    BY <2>12
  <2> HIDE DEF i, y
  <2>15. i - 2^((k - 1) - 1) + 1 = index - 2^(k - 1) + 1
    BY <2>12, <2>13
  <2> QED
    BY <2>11, <2>14, <2>15
<1> HIDE DEF z, x, q
<1>6. ASSUME NEW k \in 1..N
      PROVE  c[index - 2^(k - 1) + 1] = IF k = 1 THEN h ELSE Pointer(W[k - 1], k - 1)
  <2>1. CASE k = 1
    <3>1. k - 1 = 0
      BY <2>1
    <3>2. 2^(k - 1) = 1
      BY <3>1, SmallPowers
    <3>3. index - 2^(k - 1) + 1 = index
      BY <1>1, <3>2
    <3> QED
      BY <2>1, <3>3
  <2>2. CASE k # 1
    <3>1. k \in 2..N /\ k - 1 \in 1..N
      BY <1>1, <2>2
    <3>2. W[k - 1] = c[index - 2^((k - 1) - 1) + 1]
      BY <3>1
    <3>3. Pointer(W[k - 1], k - 1) = c[index - 2^(k - 1) + 1]
      BY <1>5, <3>1, <3>2
    <3> QED
      BY <2>2, <3>3
  <2> QED
    BY <2>1, <2>2
<1>7. W = [k \in 1..N |-> IF k = 1 THEN h ELSE Pointer(W[k - 1], k - 1)]
  BY <1>6
<1>8. Follow = [k \in 1..N |-> IF k = 1 THEN h ELSE Pointer(Follow[k - 1], k - 1)]
  <2> HIDE DEF W, N
  <2>1. \E f : f = [k \in 1..N |-> IF k = 1 THEN h ELSE Pointer(f[k - 1], k - 1)]
    BY <1>7
  <2>2. Follow = CHOOSE f : f = [k \in 1..N |-> IF k = 1 THEN h ELSE Pointer(f[k - 1], k - 1)]
    BY Zenon
  <2> HIDE DEF Follow
  <2> QED
    BY <2>1, <2>2
<1> HIDE DEF Follow, W, N
<1> DEFINE T == {k \in 0..N : k = 0 \/ Follow[k] = W[k]}
<1>9. 0 \in T
  BY <1>1
<1>10. ASSUME NEW k \in 1..N, k - 1 \in T PROVE k \in T
  <2>1. Follow[k] = IF k = 1 THEN h ELSE Pointer(Follow[k - 1], k - 1)
    BY <1>8
  <2>2. W[k] = IF k = 1 THEN h ELSE Pointer(W[k - 1], k - 1)
    BY <1>7
  <2>3. k = 1 \/ Follow[k - 1] = W[k - 1]
    BY <1>10
  <2>4. Follow[k] = W[k]
    BY <2>1, <2>2, <2>3
  <2> QED
    BY <1>1, <2>4
<1> HIDE DEF T
<1>11. 0..N \subseteq T
  BY <1>1, <1>9, <1>10, UpTo
<1>12. \A k \in 1..N : Follow[k] = W[k]
  <2>1. ASSUME NEW k \in 1..N PROVE Follow[k] = W[k]
    <3>1. k \in T /\ k # 0
      BY <1>11
    <3> QED
      BY <3>1 DEF T
  <2> QED
    BY <2>1
<1>13. Follow = W
  BY <1>7, <1>8, <1>12
<1>14. \A k \in 1..N : index - 2^(k - 1) + 1 \in 1..index
  <2>1. ASSUME NEW k \in 1..N PROVE index - 2^(k - 1) + 1 \in 1..index
    <3>1. 2^(k - 1) \in Nat /\ 1 <= 2^(k - 1) /\ 2^(k - 1) <= index
      BY <1>4
    <3> DEFINE y == 2^(k - 1)
    <3> HIDE DEF y
    <3>2. index - y + 1 \in 1..index
      BY <1>1, <3>1 DEF y
    <3> QED
      BY <3>2 DEF y
  <2> QED
    BY <2>1
<1> QED
  BY <1>3, <1>13, <1>14 DEF W, N

\* The front of a list is a list.
LEMMA FrontOfList ==
  ASSUME NEW P, NEW c, ListIn(P, c), NEW m \in 0..Len(c)
  PROVE  /\ ListIn(P, SubSeq(c, 1, m))
         /\ Len(SubSeq(c, 1, m)) = m
         /\ \A i \in 1..m : SubSeq(c, 1, m)[i] = c[i]
         /\ ToSet(SubSeq(c, 1, m)) \subseteq ToSet(c)
<1> DEFINE s == SubSeq(c, 1, m)
<1>1. c \in Seq(Blocks) /\ Len(c) \in Nat /\ m \in Nat
  BY DEF ListIn
<1>2. s \in Seq(Blocks) /\ Len(s) = m
  BY <1>1
<1>3. \A i \in 1..m : s[i] = c[i]
  BY <1>1
<1> HIDE DEF s
<1>4. ToSet(s) \subseteq ToSet(c)
  <2>1. ASSUME NEW x \in ToSet(s) PROVE x \in ToSet(c)
    <3>1. PICK i \in 1..m : x = s[i]
      BY <1>2 DEF ToSet
    <3>2. i \in 1..Len(c) /\ x = c[i]
      BY <1>1, <1>3, <3>1
    <3> QED
      BY <1>1, <3>2 DEF ToSet
  <2> QED
    BY <2>1
<1>5. ASSUME NEW i \in 1..(Len(s) - 1)
      PROVE  /\ i \in Indexes
             /\ Len(P[s[i + 1]]) = Pointers(i)
             /\ \A k \in 1..Pointers(i) : P[s[i + 1]][k] = s[i - 2^(k - 1) + 1]
  <2>1. i \in 1..(Len(c) - 1) /\ i \in Nat /\ i < m /\ i + 1 \in 1..m
    BY <1>1, <1>2
  <2>2. /\ i \in Indexes
        /\ Len(P[c[i + 1]]) = Pointers(i)
        /\ \A k \in 1..Pointers(i) : P[c[i + 1]][k] = c[i - 2^(k - 1) + 1]
    BY <2>1 DEF ListIn
  <2>3. s[i + 1] = c[i + 1]
    BY <1>3, <2>1
  <2>4. ASSUME NEW k \in 1..Pointers(i) PROVE P[s[i + 1]][k] = s[i - 2^(k - 1) + 1]
    <3> DEFINE y == 2^(k - 1)
    <3>1. y \in Nat /\ 1 <= y /\ y <= i
      BY <2>2, PointerInReach
    <3> HIDE DEF y
    <3>2. i - y + 1 \in 1..m
      BY <2>1, <3>1
    <3>3. s[i - y + 1] = c[i - y + 1]
      BY <1>3, <3>2
    <3> QED
      BY <2>2, <2>3, <3>3 DEF y
  <2> QED
    BY <2>2, <2>3, <2>4
<1>6. ListIn(P, s)
  BY <1>2, <1>5 DEF ListIn
<1> QED
  BY <1>2, <1>3, <1>4, <1>6 DEF s

\* A list stays one as long as its blocks keep their pointers.
LEMMA ListStays ==
  ASSUME NEW P, NEW Q, NEW c, ListIn(P, c), \A b \in ToSet(c) : Q[b] = P[b]
  PROVE  ListIn(Q, c)
<1>1. c \in Seq(Blocks) /\ Len(c) \in Nat
  BY DEF ListIn
<1>2. ASSUME NEW i \in 1..(Len(c) - 1) PROVE Q[c[i + 1]] = P[c[i + 1]]
  <2>1. i + 1 \in 1..Len(c)
    BY <1>1
  <2>2. c[i + 1] \in ToSet(c)
    BY <1>1, <2>1 DEF ToSet
  <2> QED
    BY <2>2
<1>3. ASSUME NEW i \in 1..(Len(c) - 1)
      PROVE  /\ i \in Indexes
             /\ Len(Q[c[i + 1]]) = Pointers(i)
             /\ \A k \in 1..Pointers(i) : Q[c[i + 1]][k] = c[i - 2^(k - 1) + 1]
  BY <1>2, Zenon DEF ListIn
<1> QED
  BY <1>1, <1>3 DEF ListIn

\* Block f has the pointers of the block behind those of c.
Follows(Q, c, f) ==
  \/ Len(c) = 0
  \/ /\ Len(c) \in Indexes
     /\ Len(Q[f]) = Pointers(Len(c))
     /\ \A k \in 1..Pointers(Len(c)) : Q[f][k] = c[Len(c) - 2^(k - 1) + 1]

\* d has the blocks of c, or all but the last of them, and ends with f.
EndsIn(Q, c, d, f, n) ==
  /\ ListIn(Q, d)
  /\ Len(d) = n
  /\ d[n] = f
  /\ ToSet(d) \subseteq ToSet(c) \cup {f}

\* A block with the pointers that belong there makes a list longer.
LEMMA ListGrows ==
  ASSUME NEW P, NEW Q, NEW c, ListIn(P, c), \A b \in ToSet(c) : Q[b] = P[b],
         NEW f \in Blocks, Follows(Q, c, f)
  PROVE  EndsIn(Q, c, Append(c, f), f, Len(c) + 1)
<1> DEFINE n == Len(c)
           d == Append(c, f)
<1>1. ListIn(Q, c)
  BY ListStays
<1>2. c \in Seq(Blocks) /\ n \in Nat
  BY DEF ListIn
<1>3. d \in Seq(Blocks) /\ Len(d) = n + 1
  BY <1>2
<1>4. \A i \in 1..n : d[i] = c[i]
  BY <1>2
<1>5. d[n + 1] = f
  BY <1>2
<1> HIDE DEF d, n
<1>6. ToSet(d) \subseteq ToSet(c) \cup {f}
  <2>1. ASSUME NEW x \in ToSet(d) PROVE x \in ToSet(c) \cup {f}
    <3>1. PICK i \in 1..(n + 1) : x = d[i]
      BY <1>3 DEF ToSet
    <3>2. CASE i = n + 1
      BY <1>5, <3>1, <3>2
    <3>3. CASE i \in 1..n
      BY <1>2, <1>4, <3>1, <3>3 DEF ToSet, n
    <3> QED
      BY <1>2, <3>2, <3>3
  <2> QED
    BY <2>1
<1>7. ASSUME NEW i \in 1..(Len(d) - 1)
      PROVE  /\ i \in Indexes
             /\ Len(Q[d[i + 1]]) = Pointers(i)
             /\ \A k \in 1..Pointers(i) : Q[d[i + 1]][k] = d[i - 2^(k - 1) + 1]
  <2>1. i \in Nat /\ i >= 1 /\ i <= n
    BY <1>2, <1>3
  <2> DEFINE g == IF i = n THEN f ELSE c[i + 1]
  <2>2. d[i + 1] = g
    <3>1. CASE i = n
      BY <1>5, <3>1
    <3>2. CASE i # n
      <4>1. i + 1 \in 1..n
        BY <1>2, <2>1, <3>2
      <4> QED
        BY <1>4, <3>2, <4>1
    <3> QED
      BY <3>1, <3>2
  <2>3. /\ i \in Indexes
        /\ Len(Q[g]) = Pointers(i)
        /\ \A k \in 1..Pointers(i) : Q[g][k] = c[i - 2^(k - 1) + 1]
    <3>1. CASE i = n
      <4>1. Len(c) # 0
        BY <2>1, <3>1 DEF n
      <4>2. /\ Len(c) \in Indexes
            /\ Len(Q[f]) = Pointers(Len(c))
            /\ \A k \in 1..Pointers(Len(c)) : Q[f][k] = c[Len(c) - 2^(k - 1) + 1]
        BY <4>1 DEF Follows
      <4>3. i = Len(c) /\ g = f
        BY <3>1 DEF n
      <4> HIDE DEF g
      <4> QED
        BY <4>2, <4>3
    <3>2. CASE i # n
      <4>1. i \in 1..(Len(c) - 1)
        BY <1>2, <2>1, <3>2 DEF n
      <4>2. g = c[i + 1]
        BY <3>2
      <4> HIDE DEF g
      <4> QED
        BY <1>1, <4>1, <4>2 DEF ListIn
    <3> QED
      BY <3>1, <3>2
  <2> HIDE DEF g
  <2>4. ASSUME NEW k \in 1..Pointers(i) PROVE Q[d[i + 1]][k] = d[i - 2^(k - 1) + 1]
    <3> DEFINE y == 2^(k - 1)
    <3>1. y \in Nat /\ 1 <= y /\ y <= i
      BY <2>3, PointerInReach
    <3> HIDE DEF y
    <3>2. i - y + 1 \in 1..n
      BY <1>2, <2>1, <3>1
    <3>3. d[i - y + 1] = c[i - y + 1]
      BY <1>4, <3>2
    <3>4. Q[g][k] = c[i - y + 1]
      BY <2>3 DEF y
    <3> QED
      BY <2>2, <3>3, <3>4 DEF y
  <2> QED
    BY <2>2, <2>3, <2>4
<1>8. ListIn(Q, d)
  BY <1>3, <1>7 DEF ListIn
<1> QED
  BY <1>3, <1>5, <1>6, <1>8 DEF EndsIn, d, n

\* A block with the pointers of the last one can take its place.
LEMMA ListReplaced ==
  ASSUME NEW P, NEW Q, NEW c, ListIn(P, c), Len(c) >= 1, \A b \in ToSet(c) : Q[b] = P[b],
         NEW f \in Blocks, Q[f] = P[c[Len(c)]]
  PROVE  EndsIn(Q, c, Append(Front(c), f), f, Len(c))
<1> DEFINE n == Len(c) - 1
           s == SubSeq(c, 1, n)
<1>1. n \in Nat /\ n \in 0..Len(c) /\ Len(c) = n + 1 /\ c \in Seq(Blocks)
  BY DEF ListIn
<1>2. Front(c) = s
  BY DEF Front
<1> HIDE DEF n
<1>3. /\ ListIn(P, s)
      /\ Len(s) = n
      /\ \A i \in 1..n : s[i] = c[i]
      /\ ToSet(s) \subseteq ToSet(c)
  BY <1>1, FrontOfList
<1> HIDE DEF s
<1>4. n = 0 \/ /\ n \in Indexes
               /\ Len(Q[f]) = Pointers(n)
               /\ \A k \in 1..Pointers(n) : Q[f][k] = s[n - 2^(k - 1) + 1]
  <2>1. SUFFICES ASSUME n # 0
                 PROVE  /\ n \in Indexes
                        /\ Len(Q[f]) = Pointers(n)
                        /\ \A k \in 1..Pointers(n) : Q[f][k] = s[n - 2^(k - 1) + 1]
    OBVIOUS
  <2>2. n \in 1..(Len(c) - 1)
    BY <1>1, <2>1
  <2>3. /\ n \in Indexes
        /\ Len(P[c[n + 1]]) = Pointers(n)
        /\ \A k \in 1..Pointers(n) : P[c[n + 1]][k] = c[n - 2^(k - 1) + 1]
    BY <2>2 DEF ListIn
  <2>4. Q[f] = P[c[n + 1]]
    BY <1>1
  <2>5. ASSUME NEW k \in 1..Pointers(n) PROVE Q[f][k] = s[n - 2^(k - 1) + 1]
    <3> DEFINE y == 2^(k - 1)
    <3>1. y \in Nat /\ 1 <= y /\ y <= n
      BY <2>3, PointerInReach
    <3> HIDE DEF y
    <3>2. n - y + 1 \in 1..n
      BY <1>1, <3>1
    <3>3. s[n - y + 1] = c[n - y + 1]
      BY <1>3, <3>2
    <3> QED
      BY <2>3, <2>4, <3>3 DEF y
  <2> QED
    BY <2>3, <2>4, <2>5
<1>5. \A b \in ToSet(s) : Q[b] = P[b]
  BY <1>3
<1>6. Follows(Q, s, f)
  BY <1>3, <1>4 DEF Follows
<1>7. EndsIn(Q, s, Append(s, f), f, Len(s) + 1)
  BY <1>3, <1>5, <1>6, ListGrows
<1> QED
  BY <1>1, <1>2, <1>3, <1>7 DEF EndsIn

-----------------------------------------------------------------------------
(* The invariant *)

\* When the guarantees hold: the first program into a new block does not fail.
FirstProgramsSucceed == AtStart = FALSE

TypeOK ==
  /\ ptrs \in [Blocks -> Seq(Blocks)]
  /\ head \in Blocks \cup {NullBlock}
  /\ size \in 0..MaxSize
  /\ flags \in SUBSET {"WRITING", "DIRTY", "ERRED"}
  /\ block \in Blocks \cup {NullBlock}
  /\ offset \in 0..BlockSize
  /\ pos \in 0..MaxSize
  /\ taken \in Nat
  /\ fresh \in BOOLEAN
  /\ disk.head \in Blocks \cup {NullBlock}
  /\ disk.size \in 0..MaxSize

\* A version of the file: its head and its size agree with the blocks of its
\* list, and these have the pointers they should have.
VersionIn(P, h, n, c) ==
  /\ ListIn(P, c)
  /\ n = 0 => c = <<>>
  /\ n # 0 => Len(c) = Index(n - 1) + 1 /\ h = c[Len(c)]

\* The version being written: it has one block more than the index of the
\* position it has come to, and its last block belongs to no other version.
WriterOK ==
  /\ ListIn(ptrs, branch)
  /\ Len(branch) >= 1
  /\ block = branch[Len(branch)]
  /\ block \notin ToSet(disk.chain) \cup ToSet(chain)
  /\ offset < BlockSize => At(pos, Len(branch) - 1, offset)
  /\ ~fresh => pos >= 1 /\ At(pos - 1, Len(branch) - 1, offset - 1)
  /\ fresh => offset < BlockSize

Between ==
  /\ branch = <<>>
  /\ block = NullBlock
  /\ ~fresh
  /\ pos <= size

IInv ==
  /\ TypeOK
  /\ VersionIn(ptrs, head, size, chain)
  /\ VersionIn(ptrs, disk.head, disk.size, disk.chain)
  /\ ~Dirty => head = disk.head /\ size = disk.size /\ chain = disk.chain
  /\ Writing => WriterOK
  /\ ~Writing => Between

-----------------------------------------------------------------------------
(* What the allocator is told, and what is followed *)

\* The blocks of every version that is needed.
Needed == ToSet(disk.chain) \cup ToSet(chain) \cup ToSet(branch)

LEMMA EmptyListsNothing == ToSet(<<>>) = {}
BY DEF ToSet

LEMMA BlocksOfList ==
  ASSUME NEW P, NEW c, ListIn(P, c)
  PROVE  ToSet(c) \subseteq Blocks
<1>1. c \in Seq(Blocks)
  BY DEF ListIn
<1> QED
  BY <1>1 DEF ToSet

LEMMA NeededAreBlocks ==
  ASSUME IInv
  PROVE  Needed \subseteq Blocks
<1>1. ListIn(ptrs, chain) /\ ListIn(ptrs, disk.chain)
  BY DEF IInv, VersionIn
<1>2. ToSet(chain) \subseteq Blocks /\ ToSet(disk.chain) \subseteq Blocks
  BY <1>1, BlocksOfList
<1>3. ToSet(branch) \subseteq Blocks
  <2>1. CASE Writing
    <3>1. ListIn(ptrs, branch)
      BY <2>1 DEF IInv, WriterOK
    <3> QED
      BY <3>1, BlocksOfList
  <2>2. CASE ~Writing
    BY <2>2, EmptyListsNothing DEF IInv, Between
  <2> QED
    BY <2>1, <2>2
<1> QED
  BY <1>2, <1>3 DEF Needed

\* A version is reported as a whole.
LEMMA VersionReported ==
  ASSUME RoomForPointers, NEW h, NEW n \in 0..MaxSize, NEW c, VersionIn(ptrs, h, n, c)
  PROVE  ToSet(c) \subseteq lfs_ctz_traverse(h, n)
<1>1. CASE n = 0
  BY <1>1, EmptyListsNothing DEF VersionIn
<1>2. CASE n # 0
  <2>1. n \in 1..MaxSize /\ ListIn(ptrs, c) /\ Len(c) = Index(n - 1) + 1 /\ h = c[Len(c)]
    BY <1>2, CtzListAssumption DEF VersionIn
  <2>2. lfs_ctz_traverse(c[Len(c)], n) = ToSet(c)
    BY <2>1, TraversesList
  <2> QED
    BY <2>1, <2>2
<1> QED
  BY <1>1, <1>2

\* So is the version being written, once it has a byte in its last block: it
\* is then a version of its own.
LEMMA WriterIsVersion ==
  ASSUME RoomForPointers, IInv, Writing, ~fresh
  PROVE  /\ VersionIn(ptrs, block, pos, branch)
         /\ pos \in 1..MaxSize
         /\ Index(pos - 1) = Len(branch) - 1
         /\ Offset(pos - 1) = offset - 1
<1>1. WriterOK /\ pos \in 0..MaxSize
  BY DEF IInv, TypeOK
<1>2. /\ ListIn(ptrs, branch)
      /\ Len(branch) >= 1
      /\ block = branch[Len(branch)]
      /\ pos >= 1 /\ At(pos - 1, Len(branch) - 1, offset - 1)
  BY <1>1 DEF WriterOK
<1>3. pos \in 1..MaxSize /\ pos - 1 \in 0..MaxSize /\ pos # 0
  BY <1>1, <1>2, CtzListAssumption
<1>4. lfs_ctz_index(pos - 1) = <<Len(branch) - 1, offset - 1>>
  BY <1>2, <1>3, IndexRight
<1>5. Index(pos - 1) = Len(branch) - 1 /\ Offset(pos - 1) = offset - 1
  BY <1>4 DEF Index, Offset
<1>6. Len(branch) = Index(pos - 1) + 1
  <2>1. Len(branch) \in Nat
    BY <1>2 DEF ListIn
  <2> QED
    BY <1>5, <2>1
<1> QED
  BY <1>2, <1>3, <1>5, <1>6 DEF VersionIn

LEMMA NeededReported ==
  ASSUME RoomForPointers, IInv, ~Writing \/ ~fresh
  PROVE  Needed \subseteq Reported
<1>1. size \in 0..MaxSize /\ disk.size \in 0..MaxSize
      /\ VersionIn(ptrs, head, size, chain) /\ VersionIn(ptrs, disk.head, disk.size, disk.chain)
  BY DEF IInv, TypeOK
<1>2. ToSet(disk.chain) \subseteq lfs_ctz_traverse(disk.head, disk.size)
  BY <1>1, VersionReported
<1>3. ToSet(chain) \subseteq lfs_ctz_traverse(head, size)
  BY <1>1, VersionReported
<1>4. ~Dirty => chain = disk.chain
  BY DEF IInv
<1>5. CASE ~Writing
  <2>1. ToSet(branch) = {}
    BY <1>5, EmptyListsNothing DEF IInv, Between
  <2> QED
    BY <1>2, <1>3, <1>4, <2>1, Zenon DEF Reported, Needed
<1>6. CASE Writing
  <2>1. VersionIn(ptrs, block, pos, branch) /\ pos \in 0..MaxSize
    BY <1>6, WriterIsVersion
  <2>2. ToSet(branch) \subseteq lfs_ctz_traverse(block, pos)
    BY <2>1, VersionReported
  <2> QED
    BY <1>2, <1>3, <1>4, <1>6, <2>2, Zenon DEF Reported, Needed
<1> QED
  BY <1>5, <1>6

\* A block is asked for where every block that is needed is reported.
LEMMA AskedBetweenBlocks ==
  ASSUME IInv, NeedsBlock
  PROVE  ~Writing \/ (~fresh /\ offset = BlockSize)
<1>1. CASE Writing
  <2>1. offset = BlockSize
    BY <1>1 DEF NeedsBlock
  <2>2. fresh => offset < BlockSize
    BY <1>1 DEF IInv, WriterOK
  <2> QED
    BY <2>1, <2>2, CtzAssumption
<1> QED
  BY <1>1

\* lfs_alloc returns a block that no version needs.
LEMMA FreeBlockIsFree ==
  ASSUME RoomForPointers, IInv, ~Writing \/ ~fresh, FreeBlocks # {}
  PROVE  FreeBlock \in Blocks /\ FreeBlock \notin Needed
<1>1. FreeBlocks \in SUBSET Nat
  BY CtzListAssumption DEF FreeBlocks
<1>2. \E x \in FreeBlocks : \A y \in FreeBlocks : x <= y
  BY <1>1, LeastOfSome
<1>3. FreeBlock \in FreeBlocks
  BY <1>2 DEF FreeBlock, Min
<1>4. Needed \subseteq Reported
  BY NeededReported
<1> QED
  BY <1>3, <1>4 DEF FreeBlocks

\* Its pointers can be changed: all versions stay what they are.
LEMMA VersionStays ==
  ASSUME NEW P, NEW Q, NEW h, NEW n, NEW c, VersionIn(P, h, n, c), \A b \in ToSet(c) : Q[b] = P[b]
  PROVE  VersionIn(Q, h, n, c)
BY ListStays DEF VersionIn

VersionsStay(Q, x) ==
  /\ Q \in [Blocks -> Seq(Blocks)]
  /\ Q[FreeBlock] = x
  /\ \A b \in Needed : Q[b] = ptrs[b]
  /\ VersionIn(Q, head, size, chain)
  /\ VersionIn(Q, disk.head, disk.size, disk.chain)

LEMMA BlockTaken ==
  ASSUME RoomForPointers, IInv, ~Writing \/ ~fresh, FreeBlocks # {},
         NEW x \in Seq(Blocks), NEW Q, Q = [ptrs EXCEPT ![FreeBlock] = x]
  PROVE  VersionsStay(Q, x)
<1>1. FreeBlock \in Blocks /\ FreeBlock \notin Needed
  BY FreeBlockIsFree
<1>2. ptrs \in [Blocks -> Seq(Blocks)]
      /\ VersionIn(ptrs, head, size, chain) /\ VersionIn(ptrs, disk.head, disk.size, disk.chain)
  BY DEF IInv, TypeOK
<1> DEFINE f == FreeBlock
<1> HIDE DEF f
<1>3. Q = [ptrs EXCEPT ![f] = x] /\ f \in Blocks /\ f \notin Needed
  BY <1>1 DEF f
<1>4. Q \in [Blocks -> Seq(Blocks)] /\ Q[f] = x
  BY <1>2, <1>3
<1>5. ASSUME NEW b \in Blocks, b # f PROVE Q[b] = ptrs[b]
  BY <1>2, <1>3, <1>5
<1>6. \A b \in Needed : Q[b] = ptrs[b]
  <2>1. Needed \subseteq Blocks
    BY NeededAreBlocks
  <2> QED
    BY <1>3, <1>5, <2>1
<1>7. (\A b \in ToSet(chain) : Q[b] = ptrs[b]) /\ (\A b \in ToSet(disk.chain) : Q[b] = ptrs[b])
  BY <1>6 DEF Needed
<1>8. VersionIn(Q, head, size, chain)
  BY <1>2, <1>7, VersionStays
<1>9. VersionIn(Q, disk.head, disk.size, disk.chain)
  BY <1>2, <1>7, VersionStays
<1> QED
  BY <1>4, <1>6, <1>8, <1>9 DEF f, VersionsStay

-----------------------------------------------------------------------------
(* The steps *)

LEMMA InitInvariant ==
  Init => IInv
<1> SUFFICES ASSUME Init PROVE IInv
  OBVIOUS
<1>1. ~Writing /\ ~Dirty
  BY DEF Init, Writing, Dirty
<1>2. ListIn(ptrs, <<>>)
  <2>1. <<>> \in Seq(Blocks) /\ Len(<<>>) = 0
    OBVIOUS
  <2> QED
    BY <2>1 DEF ListIn
<1>3. VersionIn(ptrs, head, size, chain) /\ VersionIn(ptrs, disk.head, disk.size, disk.chain)
  BY <1>2 DEF Init, VersionIn
<1>4. TypeOK
  <2>1. ptrs \in [Blocks -> Seq(Blocks)]
    BY DEF Init
  <2> QED
    <3>1. 0 \in 0..MaxSize /\ 0 \in 0..BlockSize /\ 0 \in Nat
      BY CtzAssumption, CtzListAssumption
    <3>2. disk.size = 0 /\ disk.head = NullBlock
      BY DEF Init
    <3> QED
      BY <2>1, <3>1, <3>2 DEF Init, TypeOK
<1>5. Between
  BY DEF Init, Between
<1> QED
  BY <1>1, <1>3, <1>4, <1>5 DEF IInv, Init

LEMMA SeekStep ==
  ASSUME IInv, NEW p \in Marks \cup {size}, Seek(p)
  PROVE  IInv'
<1>1. p \in 0..size /\ size \in 0..MaxSize /\ ~Writing
  BY CtzListAssumption DEF Seek, IInv, TypeOK
<1>2. UNCHANGED <<ptrs, head, size, flags, block, offset, taken, fresh, disk, chain, branch>> /\ pos' = p
  BY DEF Seek
<1>3. ~Writing' /\ (Dirty' <=> Dirty)
  BY <1>1, <1>2 DEF Writing, Dirty
<1>4. TypeOK'
  BY <1>1, <1>2, CtzListAssumption DEF IInv, TypeOK
<1>5. Between'
  BY <1>1, <1>2 DEF IInv, Between
<1> QED
  BY <1>1, <1>2, <1>3, <1>4, <1>5 DEF IInv

\* What a new version is written into leaves the others as they are.
LEMMA NewWriter ==
  ASSUME RoomForPointers, IInv, ~Writing \/ ~fresh, FreeBlocks # {},
         NEW x \in Seq(Blocks), ptrs' = [ptrs EXCEPT ![FreeBlock] = x],
         UNCHANGED <<head, size, pos, disk, chain>>, taken' \in Nat, fresh' \in BOOLEAN,
         block' = FreeBlock, offset' \in 0..BlockSize,
         flags' = flags \/ flags' = flags \cup {"WRITING"}, Writing',
         ListIn(ptrs', branch'), Len(branch') >= 1, branch'[Len(branch')] = FreeBlock,
         offset' < BlockSize => At(pos, Len(branch') - 1, offset'),
         ~fresh' => pos >= 1 /\ At(pos - 1, Len(branch') - 1, offset' - 1),
         fresh' => offset' < BlockSize
  PROVE  IInv' /\ \A b \in Needed : ptrs'[b] = ptrs[b]
<1>1. FreeBlock \in Blocks /\ FreeBlock \notin Needed
  BY FreeBlockIsFree
<1>2. /\ ptrs' \in [Blocks -> Seq(Blocks)]
      /\ \A b \in Needed : ptrs'[b] = ptrs[b]
      /\ VersionIn(ptrs', head, size, chain)
      /\ VersionIn(ptrs', disk.head, disk.size, disk.chain)
  <2>1. VersionsStay(ptrs', x)
    BY BlockTaken
  <2> QED
    BY <2>1 DEF VersionsStay
<1>3. TypeOK'
  BY <1>1, <1>2 DEF IInv, TypeOK
<1>4. Dirty' <=> Dirty
  BY DEF Dirty
<1>5. WriterOK'
  <2>2. block' \notin ToSet(disk'.chain) \cup ToSet(chain')
    BY <1>1 DEF Needed
  <2> QED
    BY <2>2 DEF WriterOK
<1> QED
  BY <1>2, <1>3, <1>4, <1>5 DEF IInv

LEMMA FirstBlockStep ==
  ASSUME RoomForPointers, IInv, FirstBlock
  PROVE  IInv' /\ \A b \in Needed : ptrs'[b] = ptrs[b]
<1>1. ~Writing \/ (~fresh /\ offset = BlockSize)
  BY AskedBetweenBlocks DEF FirstBlock
<1>2. /\ FreeBlocks # {} /\ pos = 0
      /\ ptrs' = [ptrs EXCEPT ![FreeBlock] = <<>>]
      /\ block' = FreeBlock /\ offset' = 0 /\ branch' = <<FreeBlock>>
      /\ flags' = flags \cup {"WRITING"} /\ fresh' = TRUE
      /\ UNCHANGED <<head, size, pos, disk, chain>>
  BY DEF FirstBlock, Take
<1>3. taken' \in Nat
  BY DEF FirstBlock, Take, IInv, TypeOK
<1>4. FreeBlock \in Blocks
  BY <1>1, <1>2, FreeBlockIsFree
<1> DEFINE f == FreeBlock
<1> HIDE DEF f
<1>5. ListIn(ptrs', <<f>>) /\ Len(<<f>>) = 1 /\ <<f>>[1] = f
  <2>1. <<f>> \in Seq(Blocks) /\ Len(<<f>>) = 1 /\ <<f>>[1] = f
    BY <1>4 DEF f
  <2>2. ListIn(ptrs', <<f>>)
    BY <2>1 DEF ListIn
  <2> QED
    BY <2>1, <2>2
<1>6. ListIn(ptrs', branch') /\ Len(branch') = 1 /\ branch'[Len(branch')] = FreeBlock
  BY <1>2, <1>5 DEF f
<1>7. Writing'
  BY <1>2 DEF Writing
<1>8. At(pos, Len(branch') - 1, offset')
  <2>1. Len(branch') - 1 = 0
    BY <1>6
  <2> QED
    BY <1>2, <2>1, FirstPosition
<1>9. offset' \in 0..BlockSize /\ offset' < BlockSize
  BY <1>2, CtzAssumption
<1>10. <<>> \in Seq(Blocks)
  OBVIOUS
<1>11. ~Writing \/ ~fresh
  BY <1>1
<1>12. Len(branch') >= 1 /\ fresh' \in BOOLEAN /\ fresh'
  BY <1>2, <1>6
<1> QED
  BY <1>2, <1>3, <1>6, <1>7, <1>8, <1>9, <1>10, <1>11, <1>12, NewWriter

\* A block is copied or followed by another: it is the last one of a list of
\* blocks that are needed.
Extended ==
  /\ ListIn(ptrs, FromChain)
  /\ Len(FromChain) = Index(pos - 1) + 1
  /\ Index(pos - 1) \in Nat
  /\ From = FromChain[Len(FromChain)]
  /\ From \in Blocks
  /\ ToSet(FromChain) \subseteq Needed
  /\ At(pos - 1, Index(pos - 1), Offset(pos - 1))
  /\ pos \in 1..MaxSize

LEMMA FromIsLast ==
  ASSUME RoomForPointers, IInv, NeedsBlock, pos # 0
  PROVE  Extended
<1>1. ~Writing \/ (~fresh /\ offset = BlockSize)
  BY AskedBetweenBlocks
<1>2. pos \in 1..MaxSize /\ pos - 1 \in 0..MaxSize /\ size \in 0..MaxSize
  BY CtzListAssumption DEF IInv, TypeOK
<1>3. At(pos - 1, Index(pos - 1), Offset(pos - 1))
  BY <1>2, PositionAt
<1>4. Index(pos - 1) \in Nat
  BY <1>3 DEF At
<1>5. CASE Writing
  <2>1. VersionIn(ptrs, block, pos, branch) /\ ListIn(ptrs, branch)
    BY <1>1, <1>5, WriterIsVersion DEF VersionIn
  <2>2. Len(branch) = Index(pos - 1) + 1 /\ block = branch[Len(branch)]
    BY <2>1 DEF VersionIn
  <2>3. From = block /\ FromChain = branch
    BY <1>5 DEF From, FromChain
  <2>4. branch \in Seq(Blocks)
    BY <2>1 DEF ListIn
  <2>5. branch[Len(branch)] \in Blocks
    BY <1>4, <2>2, <2>4
  <2>6. ToSet(branch) \subseteq Needed
    BY DEF Needed
  <2> QED
    BY <1>2, <1>3, <1>4, <2>1, <2>2, <2>3, <2>5, <2>6 DEF Extended
<1>6. CASE ~Writing
  <2> DEFINE i == Index(pos - 1)
             m == i + 1
  <2>1. VersionIn(ptrs, head, size, chain) /\ pos <= size
    BY <1>6 DEF IInv, Between
  <2>2. size \in 1..MaxSize /\ pos - 1 \in 0..(size - 1) /\ size - 1 \in 0..MaxSize /\ size # 0
    BY <1>2, <2>1, CtzListAssumption
  <2>3. ListIn(ptrs, chain) /\ Len(chain) = Index(size - 1) + 1 /\ head = chain[Len(chain)]
    BY <2>1, <2>2 DEF VersionIn
  <2>4. lfs_ctz_find(chain[Len(chain)], size, pos - 1) = chain[Index(pos - 1) + 1]
    BY <2>2, <2>3, FindsBlock
  <2>5. From = chain[m]
    BY <1>6, <2>3, <2>4 DEF From
  <2>6. FromChain = SubSeq(chain, 1, m)
    BY <1>6 DEF FromChain
  <2>7. Index(pos - 1) <= Index(size - 1) /\ Index(size - 1) \in Nat
    BY <2>2, IndexGrows
  <2> HIDE DEF i
  <2>8. m \in 0..Len(chain) /\ m \in 1..Len(chain) /\ m \in 1..m
    BY <1>4, <2>3, <2>7 DEF i
  <2> HIDE DEF m
  <2>9. /\ ListIn(ptrs, SubSeq(chain, 1, m))
        /\ Len(SubSeq(chain, 1, m)) = m
        /\ \A k \in 1..m : SubSeq(chain, 1, m)[k] = chain[k]
        /\ ToSet(SubSeq(chain, 1, m)) \subseteq ToSet(chain)
    BY <2>3, <2>8, FrontOfList
  <2>10. From = FromChain[m]
    BY <2>5, <2>6, <2>8, <2>9
  <2>11. From \in Blocks
    <3>1. chain \in Seq(Blocks)
      BY <2>3 DEF ListIn
    <3> QED
      BY <2>5, <2>8, <3>1
  <2>12. ToSet(FromChain) \subseteq Needed
    BY <2>6, <2>9 DEF Needed
  <2>13. m = Index(pos - 1) + 1
    BY DEF m, i
  <2> QED
    BY <1>2, <1>3, <1>4, <2>6, <2>9, <2>10, <2>11, <2>12, <2>13 DEF Extended
<1> QED
  BY <1>5, <1>6

LEMMA CopyBlockStep ==
  ASSUME RoomForPointers, IInv, CopyBlock
  PROVE  IInv' /\ \A b \in Needed : ptrs'[b] = ptrs[b]
<1> DEFINE i == Index(pos - 1)
           o == Offset(pos - 1)
           f == FreeBlock
           c == FromChain
<1>1. NeedsBlock /\ pos # 0 /\ o + 1 # BlockSize
  BY DEF CopyBlock
<1>2. /\ FreeBlocks # {}
      /\ ptrs' = [ptrs EXCEPT ![f] = ptrs[From]]
      /\ block' = f /\ offset' = o + 1 /\ branch' = Append(Front(c), f)
      /\ flags' = flags \cup {"WRITING"} /\ fresh' = TRUE
      /\ UNCHANGED <<head, size, pos, disk, chain>>
  BY DEF CopyBlock, Take
<1>3. taken' \in Nat
  BY DEF CopyBlock, Take, IInv, TypeOK
<1>4. Extended
  BY <1>1, FromIsLast
<1>5. ~Writing \/ ~fresh
  BY <1>1, AskedBetweenBlocks
<1>6. ptrs[From] \in Seq(Blocks)
  BY <1>4 DEF Extended, IInv, TypeOK
<1>7. VersionsStay(ptrs', ptrs[From])
  BY <1>2, <1>5, <1>6, BlockTaken
<1>8. f \in Blocks
  BY <1>2, <1>5, FreeBlockIsFree
<1>9. ListIn(ptrs, c) /\ Len(c) = i + 1 /\ i \in Nat /\ From = c[Len(c)] /\ ToSet(c) \subseteq Needed
      /\ At(pos - 1, i, o) /\ pos \in 1..MaxSize
  BY <1>4 DEF Extended
<1>10. ptrs'[f] = ptrs[c[Len(c)]] /\ \A b \in ToSet(c) : ptrs'[b] = ptrs[b]
  BY <1>7, <1>9 DEF VersionsStay
<1> HIDE DEF i, o, f, c
<1>11. EndsIn(ptrs', c, Append(Front(c), f), f, Len(c))
  <2>1. Len(c) >= 1
    BY <1>9
  <2> DEFINE Q == ptrs'
  <2>2. Q[f] = ptrs[c[Len(c)]] /\ \A b \in ToSet(c) : Q[b] = ptrs[b]
    BY <1>10
  <2> HIDE DEF Q
  <2>3. EndsIn(Q, c, Append(Front(c), f), f, Len(c))
    BY <1>8, <1>9, <2>1, <2>2, ListReplaced
  <2> QED
    BY <2>3 DEF Q
<1>12. ListIn(ptrs', branch') /\ Len(branch') = i + 1 /\ branch'[Len(branch')] = f
  BY <1>2, <1>9, <1>11 DEF EndsIn
<1>13. o \in Nat /\ o < BlockSize
  BY <1>9 DEF At
<1>14. o + 1 \in 0..BlockSize /\ o + 1 < BlockSize
  BY <1>1, <1>13, CtzAssumption DEF o
<1>15. At(pos, i, o + 1)
  <2>1. pos - 1 \in Nat /\ pos - 1 < MaxSize /\ (pos - 1) + 1 = pos
    BY <1>9, CtzListAssumption
  <2>2. At((pos - 1) + 1, i, o + 1)
    BY <1>9, <1>14, <2>1, NextPosition
  <2> QED
    BY <2>1, <2>2
<1>16. At(pos, Len(branch') - 1, offset')
  <2>1. Len(branch') - 1 = i
    BY <1>9, <1>12
  <2> QED
    BY <1>2, <1>15, <2>1
<1>17. Writing'
  BY <1>2 DEF Writing
<1>18. Len(branch') >= 1 /\ fresh' \in BOOLEAN /\ fresh' /\ offset' \in 0..BlockSize /\ offset' < BlockSize
  BY <1>2, <1>9, <1>12, <1>14
<1> QED
  BY <1>2, <1>3, <1>5, <1>6, <1>12, <1>16, <1>17, <1>18, NewWriter DEF f

LEMMA AppendBlockStep ==
  ASSUME RoomForPointers, IInv, AppendBlock
  PROVE  IInv' /\ \A b \in Needed : ptrs'[b] = ptrs[b]
<1> DEFINE i == Index(pos - 1)
           o == Offset(pos - 1)
           index == i + 1
           f == FreeBlock
           c == FromChain
           x == Extension(From, index)
           u == PtrSize * Pointers(index)
<1>1. NeedsBlock /\ pos # 0 /\ o + 1 = BlockSize
  BY DEF AppendBlock
<1>2. /\ FreeBlocks # {}
      /\ ptrs' = [ptrs EXCEPT ![f] = x]
      /\ block' = f /\ offset' = u /\ branch' = Append(c, f)
      /\ flags' = flags \cup {"WRITING"} /\ fresh' = TRUE
      /\ UNCHANGED <<head, size, pos, disk, chain>>
  BY DEF AppendBlock, Take
<1>3. taken' \in Nat
  BY DEF AppendBlock, Take, IInv, TypeOK
<1>4. Extended
  BY <1>1, FromIsLast
<1>5. ~Writing \/ ~fresh
  BY <1>1, AskedBetweenBlocks
<1>6. ListIn(ptrs, c) /\ Len(c) = index /\ i \in Nat /\ From = c[index] /\ ToSet(c) \subseteq Needed
      /\ At(pos - 1, i, o) /\ pos \in 1..MaxSize
  BY <1>4 DEF Extended
<1>7. f \in Blocks
  BY <1>2, <1>5, FreeBlockIsFree
<1>8. x = Extension(c[index], index)
  BY <1>6
<1>9. At(pos, index, u)
  <2>1. pos - 1 \in Nat /\ pos - 1 < MaxSize /\ (pos - 1) + 1 = pos
    BY <1>6, CtzListAssumption
  <2>2. At((pos - 1) + 1, i + 1, PtrSize * Pointers(i + 1))
    BY <1>1, <1>6, <2>1, NextPosition
  <2> QED
    BY <2>1, <2>2
<1> HIDE DEF i, o, f, c, x, u
<1>10. index \in Indexes
  <2>1. index \in Nat /\ index # 0
    BY <1>6
  <2> DEFINE b == BlockSize - 2 * PtrSize
             v == PtrSize * lfs_popc64(index)
  <2>2. pos = b * index + v + u /\ u \in Nat
    BY <1>9 DEF At
  <2>3. v \in Nat /\ b * index \in Nat
    <3>1. lfs_popc64(index) \in Nat
      BY <2>1, BitsFinite
    <3>2. PtrSize \in Nat /\ b \in Nat
      BY CtzAssumption
    <3> HIDE DEF b, index
    <3> QED
      BY <2>1, <3>1, <3>2
  <2>4. pos >= b * index
    <3> HIDE DEF b, v, index
    <3> QED
      BY <2>2, <2>3
  <2>5. pos \in 0..MaxSize
    BY <1>6
  <2> HIDE DEF index
  <2> QED
    BY <2>1, <2>4, <2>5, IndexBound
<1> HIDE DEF index
<1>11. /\ x = [k \in 1..Pointers(index) |-> c[index - 2^(k - 1) + 1]]
       /\ \A k \in 1..Pointers(index) : index - 2^(k - 1) + 1 \in 1..index
  BY <1>6, <1>8, <1>10, ExtensionOf
<1>12. Pointers(index) \in Nat
  BY <1>10, PointersOf
<1>13. \A k \in 1..Pointers(index) : c[index - 2^(k - 1) + 1] \in Blocks
  <2>1. c \in Seq(Blocks)
    BY <1>6 DEF ListIn
  <2> QED
    BY <1>6, <1>11, <2>1
<1>14. x \in Seq(Blocks) /\ Len(x) = Pointers(index)
  <2> DEFINE g(k) == c[index - 2^(k - 1) + 1]
             N == Pointers(index)
  <2>1. x = [k \in 1..N |-> g(k)] /\ N \in Nat /\ \A k \in 1..N : g(k) \in Blocks
    BY <1>11, <1>12, <1>13
  <2> HIDE DEF g, N
  <2>2. x \in Seq(Blocks) /\ Len(x) = N
    BY <2>1
  <2> QED
    BY <2>2 DEF N
<1>15. VersionsStay(ptrs', x)
  BY <1>2, <1>5, <1>14, BlockTaken DEF f
<1>16. ptrs'[f] = x /\ \A b \in ToSet(c) : ptrs'[b] = ptrs[b]
  BY <1>6, <1>15 DEF VersionsStay, f
<1>17. EndsIn(ptrs', c, Append(c, f), f, Len(c) + 1)
  <2> DEFINE Q == ptrs'
  <2>1. Q[f] = x /\ \A b \in ToSet(c) : Q[b] = ptrs[b]
    BY <1>16
  <2> HIDE DEF Q
  <2>2. Follows(Q, c, f)
    BY <1>6, <1>10, <1>11, <1>14, <2>1 DEF Follows
  <2>3. EndsIn(Q, c, Append(c, f), f, Len(c) + 1)
    BY <1>6, <1>7, <2>1, <2>2, ListGrows
  <2> QED
    BY <2>3 DEF Q
<1>18. ListIn(ptrs', branch') /\ Len(branch') = index + 1 /\ branch'[Len(branch')] = f
  BY <1>2, <1>6, <1>17 DEF EndsIn
<1>19. index \in Nat
  BY <1>10 DEF Indexes
<1>20. At(pos, Len(branch') - 1, offset')
  <2>1. Len(branch') - 1 = index
    BY <1>18, <1>19
  <2> QED
    BY <1>2, <1>9, <2>1
<1>21. offset' \in 0..BlockSize /\ offset' < BlockSize
  <2>1. u \in Nat /\ u < BlockSize
    BY <1>9 DEF At
  <2> QED
    BY <1>2, <2>1, CtzAssumption
<1>22. Writing'
  BY <1>2 DEF Writing
<1>23. Len(branch') >= 1 /\ fresh' \in BOOLEAN /\ fresh'
  BY <1>2, <1>18, <1>19
<1> QED
  BY <1>2, <1>3, <1>5, <1>14, <1>18, <1>20, <1>21, <1>22, <1>23, NewWriter DEF f

\* A position in a block, and the ones behind it in the same block.
LEMMA AtMoves ==
  ASSUME NEW p, NEW i, NEW o, At(p, i, o), NEW d \in Nat, o + d < BlockSize,
         Pointers(i) \in Nat
  PROVE  At(p + d, i, o + d)
<1> DEFINE b == BlockSize - 2 * PtrSize
           u == PtrSize * lfs_popc64(i)
           v == PtrSize * Pointers(i)
<1>1. i \in Nat /\ o \in Nat /\ v <= o /\ p = b * i + u + o
  BY DEF At
<1>2. b * i \in Nat /\ u \in Nat /\ v \in Nat
  <2>1. b \in Nat /\ PtrSize \in Nat /\ lfs_popc64(i) \in Nat
    BY <1>1, CtzAssumption, BitsFinite
  <2> HIDE DEF b
  <2> QED
    BY <1>1, <2>1
<1>3. v <= o + d /\ o + d \in Nat
  <2> HIDE DEF v
  <2> QED
    BY <1>1, <1>2
<1>4. p + d = b * i + u + (o + d)
  <2> HIDE DEF b, u
  <2> QED
    BY <1>1, <1>2
<1> QED
  BY <1>1, <1>3, <1>4 DEF At

\* The least of two numbers.
LEMMA LeastOfTwo ==
  ASSUME NEW a \in Nat, NEW b \in Nat
  PROVE  Min({a, b}) \in Nat /\ Min({a, b}) <= a /\ Min({a, b}) <= b
         /\ (Min({a, b}) = a \/ Min({a, b}) = b)
<1>1. \E x \in {a, b} : \A y \in {a, b} : x <= y
  OBVIOUS
<1>2. Min({a, b}) \in {a, b} /\ \A y \in {a, b} : Min({a, b}) <= y
  BY <1>1 DEF Min
<1> QED
  BY <1>2

LEMMA ProgramStep ==
  ASSUME RoomForPointers, IInv, NEW n \in Chunks, Program(n)
  PROVE  IInv'
<1> DEFINE d == Min({n, BlockSize - offset})
           i == Len(branch) - 1
<1>1. /\ Writing /\ offset # BlockSize
      /\ pos + d <= MaxSize /\ pos' = pos + d /\ offset' = offset + d /\ fresh' = FALSE
      /\ flags' = flags \ {"ERRED"}
      /\ UNCHANGED <<ptrs, head, size, block, taken, disk, chain, branch>>
  BY DEF Program, NeedsBlock
<1>2. TypeOK /\ WriterOK
  BY <1>1 DEF IInv
<1>3. n \in Nat /\ n >= 1 /\ BlockSize \in Nat /\ offset \in Nat /\ offset < BlockSize
      /\ pos \in Nat /\ MaxSize \in Nat
  BY <1>1, <1>2, CtzAssumption, CtzListAssumption DEF TypeOK
<1>4. d \in Nat /\ d >= 1 /\ d <= BlockSize - offset
  <2>1. BlockSize - offset \in Nat /\ BlockSize - offset >= 1
    BY <1>3
  <2> QED
    BY <1>3, <2>1, LeastOfTwo
<1> HIDE DEF d
<1>5. At(pos, i, offset) /\ ListIn(ptrs, branch) /\ Len(branch) >= 1 /\ block = branch[Len(branch)]
      /\ block \notin ToSet(disk.chain) \cup ToSet(chain)
  BY <1>2, <1>3 DEF WriterOK
<1>6. Pointers(i) \in Nat
  <2>1. i \in Nat
    BY <1>5 DEF At
  <2>2. CASE i = 0
    BY <2>2 DEF Pointers
  <2>3. CASE i # 0
    <3>1. i \in 1..(Len(branch) - 1)
      <4>1. i = Len(branch) - 1 /\ Len(branch) \in Nat
        BY <1>5 DEF ListIn
      <4> HIDE DEF i
      <4> QED
        BY <2>1, <2>3, <4>1
    <3>2. i \in Indexes
      BY <1>5, <3>1 DEF ListIn
    <3> QED
      BY <3>2, PointersOf
  <2> QED
    BY <2>2, <2>3
<1>7. offset' < BlockSize => At(pos', i, offset')
  <2>1. ASSUME offset + d < BlockSize PROVE At(pos + d, i, offset + d)
    BY <1>4, <1>5, <1>6, <2>1, AtMoves
  <2> QED
    BY <1>1, <2>1
<1>8. pos' >= 1 /\ At(pos' - 1, i, offset' - 1)
  <2> DEFINE e == d - 1
  <2>1. e \in Nat /\ offset + e < BlockSize
    BY <1>3, <1>4
  <2>2. At(pos + e, i, offset + e)
    BY <1>5, <1>6, <2>1, AtMoves
  <2>3. pos' - 1 = pos + e /\ offset' - 1 = offset + e /\ pos' >= 1
    BY <1>1, <1>3, <1>4
  <2> QED
    BY <2>2, <2>3
<1>9. WriterOK'
  BY <1>1, <1>5, <1>7, <1>8 DEF WriterOK
<1>10. TypeOK'
  <2>1. offset' \in 0..BlockSize /\ pos' \in 0..MaxSize
    BY <1>1, <1>3, <1>4
  <2> QED
    BY <1>1, <1>2, <2>1 DEF TypeOK
<1>11. Writing' /\ (Dirty' <=> Dirty)
  BY <1>1 DEF Writing, Dirty
<1> QED
  BY <1>1, <1>9, <1>10, <1>11 DEF IInv

LEMMA ProgramFailsStep ==
  ASSUME FirstProgramsSucceed, IInv, ProgramFails
  PROVE  IInv'
<1>1. /\ Writing /\ ~fresh /\ fresh' = FALSE /\ flags' = flags \cup {"ERRED"}
      /\ UNCHANGED <<ptrs, head, size, block, offset, pos, taken, disk, chain, branch>>
  BY DEF ProgramFails, NeedsBlock, FirstProgramsSucceed
<1>2. Writing' /\ (Dirty' <=> Dirty)
  BY <1>1 DEF Writing, Dirty
<1>3. TypeOK'
  BY <1>1 DEF IInv, TypeOK
<1>4. WriterOK'
  BY <1>1 DEF IInv, WriterOK
<1> QED
  BY <1>1, <1>2, <1>3, <1>4 DEF IInv

LEMMA RelocateStep ==
  ASSUME FirstProgramsSucceed, RoomForPointers, IInv, Relocate
  PROVE  IInv' /\ \A b \in Needed : ptrs'[b] = ptrs[b]
<1> DEFINE f == FreeBlock
           c == branch
           x == ptrs[block]
<1>1. /\ Writing /\ ~fresh /\ FreeBlocks # {}
      /\ ptrs' = [ptrs EXCEPT ![f] = x]
      /\ block' = f /\ branch' = Append(Front(c), f)
      /\ UNCHANGED <<head, size, flags, offset, pos, fresh, disk, chain>>
  BY DEF Relocate, Take, FirstProgramsSucceed
<1>2. taken' \in Nat
  BY DEF Relocate, Take, IInv, TypeOK
<1>3. WriterOK /\ TypeOK
  BY <1>1 DEF IInv
<1>4. /\ ListIn(ptrs, c) /\ Len(c) >= 1 /\ block = c[Len(c)]
      /\ offset < BlockSize => At(pos, Len(c) - 1, offset)
      /\ pos >= 1 /\ At(pos - 1, Len(c) - 1, offset - 1)
  BY <1>1, <1>3 DEF WriterOK
<1>5. block \in Blocks
  <2>1. c \in Seq(Blocks)
    BY <1>4 DEF ListIn
  <2> QED
    BY <1>4, <2>1
<1>6. x \in Seq(Blocks)
  BY <1>3, <1>5 DEF TypeOK
<1>7. VersionsStay(ptrs', x)
  BY <1>1, <1>6, BlockTaken
<1>8. f \in Blocks
  BY <1>1, FreeBlockIsFree
<1>9. ptrs'[f] = ptrs[c[Len(c)]] /\ \A b \in ToSet(c) : ptrs'[b] = ptrs[b]
  BY <1>4, <1>7 DEF VersionsStay, Needed
<1> HIDE DEF f, x
<1>10. EndsIn(ptrs', c, Append(Front(c), f), f, Len(c))
  <2> DEFINE Q == ptrs'
  <2>1. Q[f] = ptrs[c[Len(c)]] /\ \A b \in ToSet(c) : Q[b] = ptrs[b]
    BY <1>9
  <2> HIDE DEF Q
  <2>2. EndsIn(Q, c, Append(Front(c), f), f, Len(c))
    BY <1>4, <1>8, <2>1, ListReplaced
  <2> QED
    BY <2>2 DEF Q
<1>11. ListIn(ptrs', branch') /\ Len(branch') = Len(c) /\ branch'[Len(branch')] = f
  BY <1>1, <1>10 DEF EndsIn
<1>12. Writing' /\ offset' \in 0..BlockSize /\ fresh' \in BOOLEAN /\ ~fresh'
  BY <1>1, <1>3 DEF Writing, TypeOK
<1>13. offset' < BlockSize => At(pos, Len(branch') - 1, offset')
  BY <1>1, <1>4, <1>11
<1>14. pos >= 1 /\ At(pos - 1, Len(branch') - 1, offset' - 1)
  BY <1>1, <1>4, <1>11
<1>15. Len(branch') >= 1
  BY <1>4, <1>11
<1> QED
  BY <1>1, <1>2, <1>6, <1>11, <1>12, <1>13, <1>14, <1>15, NewWriter DEF f

LEMMA FlushStep ==
  ASSUME RoomForPointers, IInv, Flush
  PROVE  IInv'
<1>1. /\ Writing /\ ~fresh /\ pos >= size
      /\ head' = block /\ size' = pos /\ chain' = branch
      /\ flags' = (flags \ {"WRITING"}) \cup {"DIRTY"}
      /\ block' = NullBlock /\ offset' = 0 /\ branch' = <<>>
      /\ UNCHANGED <<ptrs, pos, taken, fresh, disk>>
  BY DEF Flush
<1>2. VersionIn(ptrs, block, pos, branch) /\ pos \in 1..MaxSize
  BY <1>1, WriterIsVersion
<1>3. ~Writing' /\ Dirty'
  BY <1>1 DEF Writing, Dirty
<1>4. TypeOK'
  <2>1. 0 \in 0..BlockSize /\ pos \in 0..MaxSize
    BY <1>2, CtzAssumption
  <2> QED
    BY <1>1, <2>1 DEF IInv, TypeOK
<1>5. Between'
  BY <1>1, <1>2 DEF Between
<1> QED
  BY <1>1, <1>2, <1>3, <1>4, <1>5 DEF IInv

LEMMA TruncateStep ==
  ASSUME RoomForPointers, IInv, NEW n \in Marks, Truncate(n)
  PROVE  IInv'
<1> DEFINE m == Index(n - 1) + 1
           s == SubSeq(chain, 1, m)
<1>1. /\ ~Writing /\ n \in 1..(size - 1)
      /\ head' = lfs_ctz_find(head, size, n - 1) /\ size' = n /\ chain' = s
      /\ flags' = flags \cup {"DIRTY"} /\ pos' = Min({pos, n})
      /\ UNCHANGED <<ptrs, block, offset, taken, fresh, disk, branch>>
  BY DEF Truncate
<1>2. VersionIn(ptrs, head, size, chain) /\ size \in 0..MaxSize /\ pos \in 0..MaxSize
  BY DEF IInv, TypeOK
<1>3. size \in 1..MaxSize /\ n - 1 \in 0..(size - 1) /\ size - 1 \in 0..MaxSize /\ size # 0
      /\ n \in 1..MaxSize /\ n # 0
  BY <1>1, <1>2, CtzListAssumption
<1>4. ListIn(ptrs, chain) /\ Len(chain) = Index(size - 1) + 1 /\ head = chain[Len(chain)]
  BY <1>2, <1>3 DEF VersionIn
<1>5. head' = chain[m]
  <2>1. lfs_ctz_find(chain[Len(chain)], size, n - 1) = chain[Index(n - 1) + 1]
    BY <1>3, <1>4, FindsBlock
  <2> QED
    BY <1>1, <1>4, <2>1
<1>6. Index(n - 1) \in Nat /\ Index(size - 1) \in Nat /\ Index(n - 1) <= Index(size - 1)
  BY <1>3, IndexGrows
<1>7. m \in 0..Len(chain) /\ m \in 1..Len(chain) /\ m \in 1..m
  BY <1>4, <1>6
<1>8. m = Index(n - 1) + 1
  OBVIOUS
<1> HIDE DEF m
<1>9. /\ ListIn(ptrs, s)
      /\ Len(s) = m
      /\ \A k \in 1..m : s[k] = chain[k]
  BY <1>4, <1>7, FrontOfList
<1>10. VersionIn(ptrs', head', size', chain')
  <2>1. s[m] = chain[m]
    BY <1>7, <1>9
  <2> HIDE DEF s
  <2> QED
    BY <1>1, <1>3, <1>5, <1>8, <1>9, <2>1 DEF VersionIn
<1>11. ~Writing' /\ Dirty'
  BY <1>1 DEF Writing, Dirty
<1>12. pos' \in Nat /\ pos' <= n
  <2>1. pos \in Nat /\ n \in Nat
    BY <1>2, <1>3
  <2> QED
    BY <1>1, <2>1, LeastOfTwo
<1>13. TypeOK'
  <2>1. head' \in Blocks
    <3>1. chain \in Seq(Blocks)
      BY <1>4 DEF ListIn
    <3> QED
      BY <1>5, <1>7, <3>1
  <2>2. pos' \in 0..MaxSize /\ size' \in 0..MaxSize
    BY <1>1, <1>3, <1>12, CtzListAssumption
  <2> QED
    BY <1>1, <2>1, <2>2 DEF IInv, TypeOK
<1>14. Between'
  BY <1>1, <1>12 DEF IInv, Between
<1>15. VersionIn(ptrs', disk'.head, disk'.size, disk'.chain)
  BY <1>1 DEF IInv
<1> QED
  BY <1>10, <1>11, <1>13, <1>14, <1>15 DEF IInv

LEMMA SyncStep ==
  ASSUME IInv, Sync
  PROVE  IInv'
<1>1. /\ ~Writing /\ disk' = [head |-> head, size |-> size, chain |-> chain]
      /\ flags' = flags \ {"DIRTY"}
      /\ UNCHANGED <<ptrs, head, size, block, offset, pos, taken, fresh, chain, branch>>
  BY DEF Sync
<1>2. disk'.head = head /\ disk'.size = size /\ disk'.chain = chain
  BY <1>1
<1>3. ~Writing' /\ ~Dirty'
  BY <1>1 DEF Writing, Dirty
<1>4. TypeOK'
  BY <1>1, <1>2 DEF IInv, TypeOK
<1>5. Between'
  BY <1>1 DEF IInv, Between
<1> QED
  BY <1>1, <1>2, <1>3, <1>4, <1>5 DEF IInv

LEMMA CrashStep ==
  ASSUME IInv, Crash
  PROVE  IInv'
<1>1. /\ head' = disk.head /\ size' = disk.size /\ chain' = disk.chain /\ flags' = {}
      /\ block' = NullBlock /\ offset' = 0 /\ pos' = 0 /\ fresh' = FALSE /\ branch' = <<>>
      /\ UNCHANGED <<ptrs, taken, disk>>
  BY DEF Crash
<1>2. ~Writing' /\ ~Dirty'
  BY <1>1 DEF Writing, Dirty
<1>3. TypeOK'
  <2>1. 0 \in 0..BlockSize /\ 0 \in 0..MaxSize
    BY CtzAssumption, CtzListAssumption
  <2> QED
    BY <1>1, <2>1 DEF IInv, TypeOK
<1>4. Between'
  <2>1. disk.size \in 0..MaxSize
    BY DEF IInv, TypeOK
  <2>2. pos' <= size'
    BY <1>1, <2>1, CtzListAssumption
  <2> QED
    BY <1>1, <2>2 DEF Between
<1> QED
  BY <1>1, <1>2, <1>3, <1>4 DEF IInv

\* A step keeps the invariant, and the pointers of every block that is needed.
LEMMA Step ==
  ASSUME FirstProgramsSucceed, RoomForPointers, IInv, [Next]_vars
  PROVE  IInv' /\ \A b \in Needed : ptrs'[b] = ptrs[b]
<1>1. CASE \E p \in Marks \cup {size} : Seek(p)
  BY <1>1, SeekStep DEF Seek
<1>2. CASE FirstBlock
  BY <1>2, FirstBlockStep
<1>3. CASE CopyBlock
  BY <1>3, CopyBlockStep
<1>4. CASE AppendBlock
  BY <1>4, AppendBlockStep
<1>5. CASE \E n \in Chunks : Program(n)
  BY <1>5, ProgramStep DEF Program
<1>6. CASE ProgramFails
  BY <1>6, ProgramFailsStep DEF ProgramFails
<1>7. CASE Relocate
  BY <1>7, RelocateStep
<1>8. CASE Flush
  BY <1>8, FlushStep DEF Flush
<1>9. CASE \E n \in Marks : Truncate(n)
  BY <1>9, TruncateStep DEF Truncate
<1>10. CASE Sync
  BY <1>10, SyncStep DEF Sync
<1>11. CASE Crash
  BY <1>11, CrashStep DEF Crash
<1>12. CASE UNCHANGED vars
  BY <1>12 DEF vars, IInv, TypeOK, Between, WriterOK, Writing, Dirty
<1> QED
  BY <1>1, <1>2, <1>3, <1>4, <1>5, <1>6, <1>7, <1>8, <1>9, <1>10, <1>11, <1>12 DEF Next

LEMMA InvariantHolds ==
  ASSUME FirstProgramsSucceed, RoomForPointers
  PROVE  Spec => []IInv
<1>1. IInv /\ [Next]_vars => IInv'
  BY Step
<1> QED
  BY <1>1, InitInvariant, PTL DEF Spec

-----------------------------------------------------------------------------
(* What follows *)

\* lfs_ctz_index is right: a position is in one block only, at one offset, and
\* these are the ones it computes, for all positions up to MaxSize.
THEOREM PositionsFound ==
  ASSUME RoomForPointers
  PROVE  \A p \in 0..MaxSize :
           /\ At(p, Index(p), Offset(p))
           /\ \A i, o : At(p, i, o) => lfs_ctz_index(p) = <<i, o>>
BY PositionAt, IndexRight

LEMMA VersionLocated ==
  ASSUME RoomForPointers, NEW h, NEW n \in 0..MaxSize, NEW c, VersionIn(ptrs, h, n, c)
  PROVE  Locates(h, n, c)
<1>1. ASSUME NEW p \in 0..(n - 1) PROVE lfs_ctz_find(h, n, p) = c[Index(p) + 1]
  <2>1. n \in 1..MaxSize /\ n # 0
    BY CtzListAssumption
  <2>2. ListIn(ptrs, c) /\ Len(c) = Index(n - 1) + 1 /\ h = c[Len(c)]
    BY <2>1 DEF VersionIn
  <2>3. lfs_ctz_find(c[Len(c)], n, p) = c[Index(p) + 1]
    BY <2>1, <2>2, FindsBlock
  <2> QED
    BY <2>2, <2>3
<1> QED
  BY <1>1 DEF Locates

\* lfs_ctz_find gets to the right block for every position of the file and of
\* the committed version, whatever was written, truncated, relocated or lost.
THEOREM FindCorrect ==
  ASSUME FirstProgramsSucceed, RoomForPointers
  PROVE  Spec => []FindLocates
<1>1. IInv => FindLocates
  <2> SUFFICES ASSUME IInv PROVE FindLocates
    OBVIOUS
  <2>1. size \in 0..MaxSize /\ VersionIn(ptrs, head, size, chain)
        /\ disk.size \in 0..MaxSize /\ VersionIn(ptrs, disk.head, disk.size, disk.chain)
    BY DEF IInv, TypeOK
  <2> QED
    BY <2>1, VersionLocated DEF FindLocates
<1> QED
  BY <1>1, InvariantHolds, PTL

\* The allocator is told of every block that is needed, in every state in
\* which lfs_ctz_extend asks it for one.
THEOREM TraverseCorrect ==
  ASSUME FirstProgramsSucceed, RoomForPointers
  PROVE  Spec => []TraverseIsComplete
<1>1. IInv => TraverseIsComplete
  <2> SUFFICES ASSUME IInv, NeedsBlock PROVE Needed \subseteq Reported
    BY DEF TraverseIsComplete, Needed
  <2> QED
    BY AskedBetweenBlocks, NeededReported
<1> QED
  BY <1>1, InvariantHolds, PTL

\* Bytes are programmed only into blocks that no other version has.
THEOREM WriterApart ==
  ASSUME FirstProgramsSucceed, RoomForPointers
  PROVE  Spec => []WritesApart
<1>1. IInv => WritesApart
  BY DEF IInv, WriterOK, WritesApart
<1> QED
  BY <1>1, InvariantHolds, PTL

\* The writer is where lfs_ctz_index will look for the bytes it writes.
THEOREM WriterInPlace ==
  ASSUME FirstProgramsSucceed, RoomForPointers
  PROVE  Spec => []WriterAtPosition
<1>1. IInv => WriterAtPosition
  <2> SUFFICES ASSUME IInv, Writing, offset < BlockSize
               PROVE  lfs_ctz_index(pos) = <<Len(branch) - 1, offset>>
    BY DEF WriterAtPosition
  <2>1. At(pos, Len(branch) - 1, offset) /\ pos \in 0..MaxSize
    BY DEF IInv, WriterOK, TypeOK
  <2> QED
    BY <2>1, IndexRight
<1> QED
  BY <1>1, InvariantHolds, PTL

\* No step gives other pointers to a block of a version that is still needed.
THEOREM VersionsKept ==
  ASSUME FirstProgramsSucceed, RoomForPointers
  PROVE  Spec => OnlyFreshBlocks
<1>1. IInv /\ [Next]_vars =>
        [\A b \in ToSet(disk.chain) \cup ToSet(chain) \cup ToSet(branch) : ptrs'[b] = ptrs[b]]_vars
  BY Step DEF Needed
<1> QED
  BY <1>1, InvariantHolds, PTL DEF Spec, OnlyFreshBlocks

=============================================================================
