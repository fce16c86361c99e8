---------------------------- MODULE LfsTreeProofs ----------------------------
(***************************************************************************)
(* The directory tree while no pair is relocated and no commit ends with   *)
(* an error: whatever pairs split, join and leave, and wherever power is   *)
(* lost, the deltas on the list add up to the global state, all that names *)
(* lead to is on the list, and orphans are announced, empty and found.     *)
(***************************************************************************)
EXTENDS LfsTree, FiniteSetTheorems, SequenceTheorems, WellFoundedInduction, TLAPS

-----------------------------------------------------------------------------
(* The pairs as a value: what is said of a disk D here is said of disk and *)
(* of disk' below, and of what a commit would be without its split.        *)

Deltas == [orphan : BOOLEAN, moves : SUBSET (Pairs \X (Nat \ {0}))]
EntryType == [name : Names, obj : Files \cup Pairs]
PairType ==
  [entries : Seq(EntryType), tail : Pairs \cup {NoPair}, split : BOOLEAN, delta : Deltas]
DiskType(D) == D \in [Pairs -> PairType]
States == [orphans : Nat, moves : SUBSET (Pairs \X (Nat \ {0}))]

\* The pairs that tails lead to from "from", hard ones only if "hard".
TailsIn(D, hard, T) ==
  \A q \in T : (hard => D[q].split) /\ D[q].tail # NoPair => D[q].tail \in T
WalkOf(D, from, hard) ==
  {p \in Pairs : \A T \in SUBSET Pairs : from \in T /\ TailsIn(D, hard, T) => p \in T}
ListOf(D) == WalkOf(D, Root, FALSE)

\* The pairs that hard tails and the names that the moves mv do not hide lead to.
Below(D, mv, q) ==
  {o \in Pairs : \E i \in DOMAIN D[q].entries : <<q, i>> \notin mv /\ D[q].entries[i].obj = o}
NamesIn(D, mv, T) == \A q \in T : Below(D, mv, q) \subseteq T
OwnedFrom(D, mv, d) ==
  {p \in Pairs : \A T \in SUBSET Pairs :
     d \in T /\ TailsIn(D, TRUE, T) /\ NamesIn(D, mv, T) => p \in T}
Owned(D, mv) == OwnedFrom(D, mv, Root)
OrphansOf(D, mv) == ListOf(D) \ Owned(D, mv)

EmptyIn(D, p) == D[p].entries = <<>> /\ ~D[p].split

\* A list is threaded, without a branch, and hard tails lead somewhere.
Threaded(D) ==
  LET L == ListOf(D) IN
  /\ \A q \in L : D[q].tail # Root /\ (D[q].split => D[q].tail # NoPair)
  /\ \A q, r \in L : D[q].tail = D[r].tail /\ D[q].tail # NoPair => q = r

\* What names lead to are the first pairs of directories, on the list.
HeadIn(D, p) == p # Root /\ \A q \in ListOf(D) : D[q].tail = p => ~D[q].split
Named(D) ==
  \A q \in ListOf(D) : \A i \in DOMAIN D[q].entries :
    LET o == D[q].entries[i].obj IN o \in Pairs => o \in ListOf(D) /\ HeadIn(D, o)

\* A directory has one name, but for the one a move hides.
NamedOnce(D, mv) ==
  \A q, r \in ListOf(D) : \A i \in DOMAIN D[q].entries, j \in DOMAIN D[r].entries :
    /\ <<q, i>> \notin mv /\ <<r, j>> \notin mv
    /\ D[q].entries[i].obj = D[r].entries[j].obj /\ D[q].entries[i].obj \in Pairs
    => q = r /\ i = j

\* At most one move is pending, of an entry that is there.
OneMove(D, mv) ==
  /\ \A m \in mv : m[1] \in ListOf(D) /\ m[2] \in DOMAIN D[m[1]].entries
  /\ \A m, n \in mv : m = n

OrphansEmpty(D, mv) == \A p \in OrphansOf(D, mv) : EmptyIn(D, p)

Shape(D, mv) ==
  /\ DiskType(D) /\ mv \in SUBSET (Pairs \X (Nat \ {0}))
  /\ Threaded(D) /\ Named(D) /\ NamedOnce(D, mv) /\ OneMove(D, mv) /\ OrphansEmpty(D, mv)

\* The exclusive or of the deltas of the pairs in ps.
GatherOf(D, ps) ==
  [orphan |-> Cardinality({p \in ps : D[p].delta.orphan}) % 2 = 1,
   moves  |-> {m \in UNION {D[p].delta.moves : p \in ps} :
                 Cardinality({p \in ps : m \in D[p].delta.moves}) % 2 = 1}]

-----------------------------------------------------------------------------
(* What is met on a walk *)

LEMMA WalkClosed ==
  ASSUME NEW D, NEW from \in Pairs, NEW hard,
         \A p \in Pairs : D[p].tail \in Pairs \cup {NoPair}
  PROVE  /\ from \in WalkOf(D, from, hard) /\ WalkOf(D, from, hard) \subseteq Pairs
         /\ TailsIn(D, hard, WalkOf(D, from, hard))
BY DEF WalkOf, TailsIn

LEMMA WalkLeast ==
  ASSUME NEW D, NEW from, NEW hard,
         NEW T \in SUBSET Pairs, from \in T, TailsIn(D, hard, T)
  PROVE  WalkOf(D, from, hard) \subseteq T
BY DEF WalkOf

LEMMA OwnedClosed ==
  ASSUME NEW D, NEW mv, NEW d \in Pairs,
         \A p \in Pairs : D[p].tail \in Pairs \cup {NoPair}
  PROVE  /\ d \in OwnedFrom(D, mv, d) /\ OwnedFrom(D, mv, d) \subseteq Pairs
         /\ TailsIn(D, TRUE, OwnedFrom(D, mv, d))
         /\ NamesIn(D, mv, OwnedFrom(D, mv, d))
<1> DEFINE O == OwnedFrom(D, mv, d)
<1>1. d \in O /\ O \subseteq Pairs
  BY DEF OwnedFrom
<1>2. TailsIn(D, TRUE, O)
  BY DEF OwnedFrom, TailsIn
<1>3. ASSUME NEW q \in O, NEW o \in Below(D, mv, q) PROVE o \in O
  <2>1. o \in Pairs
    BY DEF Below
  <2>2. ASSUME NEW T \in SUBSET Pairs, d \in T, TailsIn(D, TRUE, T), NamesIn(D, mv, T)
        PROVE  o \in T
    <3>1. q \in T
      BY <2>2 DEF OwnedFrom
    <3> QED
      BY <2>2, <3>1 DEF NamesIn
  <2> QED
    BY <2>1, <2>2 DEF OwnedFrom
<1> QED
  BY <1>1, <1>2, <1>3 DEF NamesIn

LEMMA OwnedLeast ==
  ASSUME NEW D, NEW mv, NEW d,
         NEW T \in SUBSET Pairs, d \in T, TailsIn(D, TRUE, T), NamesIn(D, mv, T)
  PROVE  OwnedFrom(D, mv, d) \subseteq T
BY DEF OwnedFrom

\* Whoever is met behind the first was led to by another one.
LEMMA WalkBefore ==
  ASSUME NEW D, NEW from \in Pairs, NEW hard, NEW t,
         \A p \in Pairs : D[p].tail \in Pairs \cup {NoPair},
         t \in WalkOf(D, from, hard), t # from
  PROVE  \E r \in WalkOf(D, from, hard) : D[r].tail = t /\ (hard => D[r].split)
<1> DEFINE W == WalkOf(D, from, hard)
<1>1. from \in W /\ W \subseteq Pairs /\ TailsIn(D, hard, W)
  BY WalkClosed
<1>2. SUFFICES ASSUME ~ \E r \in W : D[r].tail = t /\ (hard => D[r].split) PROVE FALSE
  OBVIOUS
<1>3. TailsIn(D, hard, W \ {t})
  BY <1>1, <1>2 DEF TailsIn
<1>4. W \subseteq W \ {t}
  BY <1>1, <1>3, WalkLeast
<1> QED
  BY <1>4

LEMMA RootTyped ==
  /\ Root \in Pairs /\ NoPair \notin Pairs /\ NoPair \notin Files
  /\ Files \cap Pairs = {} /\ IsFiniteSet(Pairs)
BY TreeAssumption

LEMMA DiskTyped ==
  ASSUME NEW D, DiskType(D), NEW q \in Pairs
  PROVE  /\ D[q].tail \in Pairs \cup {NoPair} /\ D[q].split \in BOOLEAN
         /\ D[q].entries \in Seq(EntryType) /\ D[q].delta \in Deltas
         /\ \A i \in DOMAIN D[q].entries : D[q].entries[i] \in EntryType
<1>1. D[q] \in PairType
  BY DEF DiskType
<1>2. D[q].entries \in Seq(EntryType)
  BY <1>1 DEF PairType
<1>3. \A i \in DOMAIN D[q].entries : D[q].entries[i] \in EntryType
  BY <1>2, ElementOfSeq
<1> QED
  BY <1>1, <1>2, <1>3 DEF PairType

LEMMA ListClosed ==
  ASSUME NEW D, DiskType(D)
  PROVE  /\ Root \in ListOf(D) /\ ListOf(D) \subseteq Pairs
         /\ \A q \in ListOf(D) : D[q].tail # NoPair => D[q].tail \in ListOf(D)
<1>1. \A p \in Pairs : D[p].tail \in Pairs \cup {NoPair}
  BY DiskTyped
<1> QED
  BY <1>1, WalkClosed, RootTyped DEF ListOf, TailsIn

LEMMA ListLeast ==
  ASSUME NEW D, NEW T \in SUBSET Pairs, Root \in T,
         \A q \in T : D[q].tail # NoPair => D[q].tail \in T
  PROVE  ListOf(D) \subseteq T
BY WalkLeast DEF ListOf, TailsIn

LEMMA ListBefore ==
  ASSUME NEW D, DiskType(D), NEW t \in ListOf(D), t # Root
  PROVE  \E r \in ListOf(D) : D[r].tail = t
<1>1. \A p \in Pairs : D[p].tail \in Pairs \cup {NoPair}
  BY DiskTyped
<1>2. t \in WalkOf(D, Root, FALSE)
  BY DEF ListOf
<1>3. \E r \in WalkOf(D, Root, FALSE) : D[r].tail = t /\ (FALSE => D[r].split)
  BY <1>1, <1>2, WalkBefore, RootTyped
<1> QED
  BY <1>3 DEF ListOf

LEMMA OwnedIs ==
  ASSUME NEW D, DiskType(D), NEW mv
  PROVE  /\ Root \in Owned(D, mv) /\ Owned(D, mv) \subseteq Pairs
         /\ \A q \in Owned(D, mv) : D[q].split /\ D[q].tail # NoPair => D[q].tail \in Owned(D, mv)
         /\ \A q \in Owned(D, mv) : Below(D, mv, q) \subseteq Owned(D, mv)
<1>1. \A p \in Pairs : D[p].tail \in Pairs \cup {NoPair}
  BY DiskTyped
<1> QED
  BY <1>1, OwnedClosed, RootTyped DEF Owned, TailsIn, NamesIn

LEMMA OwnedWithin ==
  ASSUME NEW D, NEW mv, NEW T \in SUBSET Pairs, Root \in T,
         \A q \in T : D[q].split /\ D[q].tail # NoPair => D[q].tail \in T,
         \A q \in T : Below(D, mv, q) \subseteq T
  PROVE  Owned(D, mv) \subseteq T
BY OwnedLeast DEF Owned, TailsIn, NamesIn

LEMMA OwnedListed ==
  ASSUME NEW D, DiskType(D), NEW mv, Named(D)
  PROVE  Owned(D, mv) \subseteq ListOf(D)
<1>1. \A q \in ListOf(D) : Below(D, mv, q) \subseteq ListOf(D)
  BY DEF Named, Below
<1> QED
  BY <1>1, OwnedWithin, ListClosed

\* An orphan leads and names nothing.
LEMMA OrphanAlone ==
  ASSUME NEW D, NEW mv, Shape(D, mv), NEW p \in ListOf(D),
         D[p].split \/ D[p].entries # <<>>
  PROVE  p \in Owned(D, mv)
BY DEF Shape, OrphansEmpty, OrphansOf, EmptyIn

LEMMA BelowHeads ==
  ASSUME NEW D, NEW mv, Shape(D, mv), NEW q \in ListOf(D), NEW o \in Below(D, mv, q)
  PROVE  o \in ListOf(D) /\ HeadIn(D, o) /\ o \in Owned(D, mv)
<1>1. o \in ListOf(D) /\ HeadIn(D, o)
  BY DEF Below, Shape, Named
<1>2. D[q].entries # <<>>
  <2>1. \E i \in DOMAIN D[q].entries : TRUE
    BY DEF Below
  <2>2. DOMAIN << >> = {}
    OBVIOUS
  <2> QED
    BY <2>1, <2>2
<1>3. q \in Owned(D, mv)
  BY <1>2, OrphanAlone
<1> QED
  BY <1>1, <1>3, OwnedIs DEF Shape

\* Nobody but the first pair of a directory has a name, and no pair two.
LEMMA BelowOnce ==
  ASSUME NEW D, NEW mv, Shape(D, mv), NEW q \in ListOf(D), NEW r \in ListOf(D),
         NEW o \in Below(D, mv, q), o \in Below(D, mv, r)
  PROVE  q = r
BY DEF Below, Shape, NamedOnce

LEMMA NoLoop ==
  ASSUME NEW D, DiskType(D), Threaded(D), NEW q \in ListOf(D)
  PROVE  D[q].tail # q
<1>1. SUFFICES ASSUME D[q].tail = q PROVE FALSE
  OBVIOUS
<1> DEFINE T == ListOf(D) \ {q}
<1>2. q # Root /\ q # NoPair
  BY <1>1, ListClosed, RootTyped DEF Threaded
<1>3. ASSUME NEW r \in T, D[r].tail # NoPair PROVE D[r].tail \in T
  BY <1>1, <1>2, <1>3, ListClosed DEF Threaded
<1>4. ListOf(D) \subseteq T
  BY <1>2, <1>3, ListClosed, ListLeast
<1> QED
  BY <1>4
-----------------------------------------------------------------------------
(* Sums of deltas *)

LEMMA XorTyped == \A a, b \in Deltas : Xor(a, b) \in Deltas
BY DEF Deltas, Xor, SymDiff

LEMMA ZeroTyped == Zero \in Deltas
BY DEF Zero, Deltas

LEMMA XorZero == \A a \in Deltas : Xor(a, Zero) = a /\ Xor(Zero, a) = a /\ Xor(a, a) = Zero
<1> SUFFICES ASSUME NEW a \in Deltas PROVE Xor(a, Zero) = a /\ Xor(Zero, a) = a /\ Xor(a, a) = Zero
  OBVIOUS
<1>1. a = [orphan |-> a.orphan, moves |-> a.moves] /\ a.orphan \in BOOLEAN
  BY DEF Deltas
<1>2. /\ SymDiff(a.moves, {}) = a.moves /\ SymDiff({}, a.moves) = a.moves
      /\ SymDiff(a.moves, a.moves) = {}
  BY DEF SymDiff
<1>3. (a.orphan # FALSE) = a.orphan /\ (FALSE # a.orphan) = a.orphan /\ (a.orphan # a.orphan) = FALSE
  BY <1>1
<1> QED
  BY <1>1, <1>2, <1>3 DEF Xor, Zero

LEMMA XorAssoc == \A a, b, c \in Deltas : Xor(Xor(a, b), c) = Xor(a, Xor(b, c))
<1> SUFFICES ASSUME NEW a \in Deltas, NEW b \in Deltas, NEW c \in Deltas
             PROVE  Xor(Xor(a, b), c) = Xor(a, Xor(b, c))
  OBVIOUS
<1>1. a.orphan \in BOOLEAN /\ b.orphan \in BOOLEAN /\ c.orphan \in BOOLEAN
  BY DEF Deltas
<1>2. ((a.orphan # b.orphan) # c.orphan) = (a.orphan # (b.orphan # c.orphan))
  BY <1>1
<1>3. SymDiff(SymDiff(a.moves, b.moves), c.moves) = SymDiff(a.moves, SymDiff(b.moves, c.moves))
  BY DEF SymDiff
<1> QED
  BY <1>2, <1>3 DEF Xor

LEMMA XorSwap == \A a, b \in Deltas : Xor(a, b) = Xor(b, a)
<1> SUFFICES ASSUME NEW a \in Deltas, NEW b \in Deltas PROVE Xor(a, b) = Xor(b, a)
  OBVIOUS
<1>1. (a.orphan # b.orphan) = (b.orphan # a.orphan) /\ SymDiff(a.moves, b.moves) = SymDiff(b.moves, a.moves)
  BY DEF SymDiff
<1> QED
  BY <1>1 DEF Xor

\* What is added twice is not there.
LEMMA XorTwice == \A a, b \in Deltas : Xor(Xor(a, b), b) = a
<1> SUFFICES ASSUME NEW a \in Deltas, NEW b \in Deltas PROVE Xor(Xor(a, b), b) = a
  OBVIOUS
<1>1. Xor(Xor(a, b), b) = Xor(a, Xor(b, b))
  BY XorAssoc
<1> QED
  BY <1>1, XorZero

Odd(S) == Cardinality(S) % 2 = 1

LEMMA OddAdd ==
  ASSUME NEW S, IsFiniteSet(S), NEW x, x \notin S
  PROVE  Odd(S \cup {x}) <=> ~Odd(S)
<1>1. Cardinality(S) \in Nat
  BY FS_CardinalityType
<1>2. Cardinality(S \cup {x}) = Cardinality(S) + 1
  BY FS_AddElement
<1>3. \A n \in Nat : (n + 1) % 2 = 1 <=> ~(n % 2 = 1)
  OBVIOUS
<1> QED
  BY <1>1, <1>2, <1>3 DEF Odd

LEMMA OddSome == ASSUME NEW S, Odd(S) PROVE S # {}
BY FS_EmptySet DEF Odd

LEMMA GatherIs ==
  ASSUME NEW D, NEW S
  PROVE  /\ GatherOf(D, S).orphan = Odd({p \in S : D[p].delta.orphan})
         /\ \A m : m \in GatherOf(D, S).moves <=> Odd({p \in S : m \in D[p].delta.moves})
<1>1. GatherOf(D, S).orphan = Odd({p \in S : D[p].delta.orphan})
  BY DEF GatherOf, Odd
<1>2. ASSUME NEW m PROVE m \in GatherOf(D, S).moves <=> Odd({p \in S : m \in D[p].delta.moves})
  <2>1. m \in GatherOf(D, S).moves <=>
          m \in UNION {D[p].delta.moves : p \in S} /\ Odd({p \in S : m \in D[p].delta.moves})
    BY DEF GatherOf, Odd
  <2>2. ASSUME Odd({p \in S : m \in D[p].delta.moves})
        PROVE  m \in UNION {D[p].delta.moves : p \in S}
    <3>1. {p \in S : m \in D[p].delta.moves} # {}
      BY <2>2, OddSome
    <3> QED
      BY <3>1
  <2> QED
    BY <2>1, <2>2
<1> QED
  BY <1>1, <1>2

LEMMA GatherTyped ==
  ASSUME NEW D, DiskType(D), NEW S \in SUBSET Pairs
  PROVE  GatherOf(D, S) \in Deltas
<1>1. \A p \in S : D[p].delta \in Deltas
  BY DiskTyped
<1> QED
  BY <1>1 DEF GatherOf, Deltas

LEMMA GatherAdd ==
  ASSUME NEW D, DiskType(D), NEW S \in SUBSET Pairs, NEW q \in Pairs, q \notin S
  PROVE  GatherOf(D, S \cup {q}) = Xor(GatherOf(D, S), D[q].delta)
<1> DEFINE A == GatherOf(D, S)
           B == GatherOf(D, S \cup {q})
           Or(T) == {p \in T : D[p].delta.orphan}
           Mo(T, m) == {p \in T : m \in D[p].delta.moves}
<1>0. D[q].delta \in Deltas
  BY DiskTyped
<1>1. IsFiniteSet(S)
  BY RootTyped, FS_Subset
<1>2. B.orphan = (A.orphan # D[q].delta.orphan)
  <2>1. A.orphan = Odd(Or(S)) /\ B.orphan = Odd(Or(S \cup {q}))
    BY GatherIs
  <2>2. IsFiniteSet(Or(S)) /\ q \notin Or(S)
    BY <1>1, FS_Subset
  <2>3. CASE D[q].delta.orphan = TRUE
    <3>1. Or(S \cup {q}) = Or(S) \cup {q}
      BY <2>3
    <3>2. Odd(Or(S \cup {q})) <=> ~Odd(Or(S))
      BY <2>2, <3>1, OddAdd
    <3> QED
      BY <2>1, <2>3, <3>2 DEF Odd
  <2>4. CASE D[q].delta.orphan = FALSE
    <3>1. Or(S \cup {q}) = Or(S)
      BY <2>4
    <3> QED
      BY <2>1, <2>4, <3>1 DEF Odd
  <2> QED
    BY <1>0, <2>3, <2>4 DEF Deltas
<1>3. ASSUME NEW m PROVE m \in B.moves <=> m \in SymDiff(A.moves, D[q].delta.moves)
  <2>0. /\ \A x : x \in A.moves <=> Odd(Mo(S, x))
        /\ \A x : x \in B.moves <=> Odd(Mo(S \cup {q}, x))
    BY GatherIs, Zenon
  <2>1. (m \in A.moves <=> Odd(Mo(S, m))) /\ (m \in B.moves <=> Odd(Mo(S \cup {q}, m)))
    BY <2>0, Zenon
  <2>2. IsFiniteSet(Mo(S, m)) /\ q \notin Mo(S, m)
    BY <1>1, FS_Subset
  <2>3. CASE m \in D[q].delta.moves
    <3>1. Mo(S \cup {q}, m) = Mo(S, m) \cup {q}
      BY <2>3
    <3>2. Odd(Mo(S \cup {q}, m)) <=> ~Odd(Mo(S, m))
      BY <2>2, <3>1, OddAdd
    <3> QED
      BY <2>1, <2>3, <3>2 DEF SymDiff
  <2>4. CASE m \notin D[q].delta.moves
    <3>1. Mo(S \cup {q}, m) = Mo(S, m)
      BY <2>4
    <3> QED
      BY <2>1, <2>4, <3>1 DEF SymDiff
  <2> QED
    BY <2>3, <2>4
<1>4. B.moves = SymDiff(A.moves, D[q].delta.moves)
  BY <1>3
<1>5. B = [orphan |-> B.orphan, moves |-> B.moves]
  BY DEF GatherOf
<1> QED
  BY <1>2, <1>4, <1>5 DEF Xor

LEMMA GatherSame ==
  ASSUME NEW D, NEW E, NEW S, \A p \in S : E[p].delta = D[p].delta
  PROVE  GatherOf(E, S) = GatherOf(D, S)
<1>1. {p \in S : E[p].delta.orphan} = {p \in S : D[p].delta.orphan}
  OBVIOUS
<1>2. UNION {E[p].delta.moves : p \in S} = UNION {D[p].delta.moves : p \in S}
  OBVIOUS
<1>3. \A m : {p \in S : m \in E[p].delta.moves} = {p \in S : m \in D[p].delta.moves}
  OBVIOUS
<1> QED
  BY <1>1, <1>2, <1>3 DEF GatherOf

LEMMA GatherLess ==
  ASSUME NEW D, DiskType(D), NEW S \in SUBSET Pairs, NEW q \in S
  PROVE  GatherOf(D, S \ {q}) = Xor(GatherOf(D, S), D[q].delta)
<1>1. (S \ {q}) \cup {q} = S
  OBVIOUS
<1>2. GatherOf(D, S) = Xor(GatherOf(D, S \ {q}), D[q].delta)
  BY <1>1, GatherAdd
<1>3. D[q].delta \in Deltas /\ GatherOf(D, S \ {q}) \in Deltas
  BY DiskTyped, GatherTyped
<1> QED
  BY <1>2, <1>3, XorTwice

\* The difference c is added to what pair p stores.
LEMMA GatherChanged ==
  ASSUME NEW D, DiskType(D), NEW E, DiskType(E), NEW S \in SUBSET Pairs, NEW p \in S,
         NEW c \in Deltas, E[p].delta = Xor(D[p].delta, c),
         \A q \in S \ {p} : E[q].delta = D[q].delta
  PROVE  GatherOf(E, S) = Xor(GatherOf(D, S), c)
<1> DEFINE R == GatherOf(D, S \ {p})
<1>1. GatherOf(E, S \ {p}) = R
  BY GatherSame
<1>2. (S \ {p}) \cup {p} = S
  OBVIOUS
<1>3. GatherOf(D, S) = Xor(R, D[p].delta) /\ GatherOf(E, S) = Xor(R, Xor(D[p].delta, c))
  BY <1>1, <1>2, GatherAdd
<1>4. R \in Deltas /\ D[p].delta \in Deltas
  BY DiskTyped, GatherTyped
<1> QED
  BY <1>3, <1>4, XorAssoc

LEMMA MaskedTyped == \A g \in States : Masked(g) \in Deltas
BY DEF States, Masked, Deltas
-----------------------------------------------------------------------------
(* What a change of pairs does to the list and to the tree *)

\* D reads as E does, but for the differences, on the pairs of S.
ReadsAs(E, D, S) ==
  \A r \in S : E[r].entries = D[r].entries /\ E[r].tail = D[r].tail /\ E[r].split = D[r].split

\* A pair off the list does not count.
LEMMA OffList ==
  ASSUME NEW D, NEW mv, Shape(D, mv), NEW E, DiskType(E), ReadsAs(E, D, ListOf(D))
  PROVE  /\ Shape(E, mv) /\ ListOf(E) = ListOf(D)
         /\ Owned(E, mv) = Owned(D, mv) /\ OrphansOf(E, mv) = OrphansOf(D, mv)
<1> DEFINE S == ListOf(D)
<1>1. DiskType(D) /\ mv \in SUBSET (Pairs \X (Nat \ {0}))
  BY DEF Shape
<1>2. ListOf(E) \subseteq S
  BY <1>1, ListClosed, ListLeast DEF ReadsAs
<1>3. S \subseteq ListOf(E)
  <2>1. \A q \in ListOf(E) : D[q].tail # NoPair => D[q].tail \in ListOf(E)
    BY <1>2, ListClosed DEF ReadsAs
  <2> QED
    BY <1>1, <2>1, ListClosed, ListLeast
<1>4. ListOf(E) = S
  BY <1>2, <1>3
<1>5. \A q \in S : Below(E, mv, q) = Below(D, mv, q)
  BY DEF Below, ReadsAs
<1>6. Owned(D, mv) \subseteq S
  BY <1>1, OwnedListed DEF Shape
<1>7. Owned(E, mv) \subseteq Owned(D, mv)
  <2>1. \A q \in Owned(D, mv) : Below(E, mv, q) \subseteq Owned(D, mv)
    BY <1>1, <1>5, <1>6, OwnedIs
  <2>2. \A q \in Owned(D, mv) : E[q].split /\ E[q].tail # NoPair => E[q].tail \in Owned(D, mv)
    BY <1>1, <1>6, OwnedIs DEF ReadsAs
  <2> QED
    BY <1>1, <2>1, <2>2, OwnedIs, OwnedWithin
<1>8. Owned(D, mv) \subseteq Owned(E, mv)
  <2> DEFINE O == Owned(E, mv)
  <2>1. O \subseteq S /\ O \subseteq Pairs /\ Root \in O
    BY <1>6, <1>7, OwnedIs
  <2>2. \A q \in O : Below(D, mv, q) \subseteq O
    BY <1>5, <2>1, OwnedIs
  <2>3. \A q \in O : D[q].split /\ D[q].tail # NoPair => D[q].tail \in O
    BY <2>1, OwnedIs DEF ReadsAs
  <2> QED
    BY <2>1, <2>2, <2>3, OwnedWithin
<1>9. Owned(E, mv) = Owned(D, mv) /\ OrphansOf(E, mv) = OrphansOf(D, mv)
  BY <1>4, <1>7, <1>8 DEF OrphansOf
<1>10. Threaded(E)
  BY <1>4 DEF Shape, Threaded, ReadsAs
<1>11. Named(E)
  BY <1>4 DEF Shape, Named, HeadIn, ReadsAs
<1>12. NamedOnce(E, mv)
  BY <1>4 DEF Shape, NamedOnce, ReadsAs
<1>13. OneMove(E, mv)
  BY <1>4 DEF Shape, OneMove, ReadsAs
<1>14. OrphansEmpty(E, mv)
  BY <1>9 DEF Shape, OrphansEmpty, EmptyIn, ReadsAs, OrphansOf
<1> QED
  BY <1>1, <1>4, <1>9, <1>10, <1>11, <1>12, <1>13, <1>14 DEF Shape

\* The list skips pair p behind q: an orphan, or a hard tail that is empty.
LEMMA Skipped ==
  ASSUME NEW D, Shape(D, {}), NEW q \in ListOf(D), NEW p \in ListOf(D),
         D[q].tail = p, D[p].entries = <<>>, D[q].split \/ p \in OrphansOf(D, {}),
         NEW E, DiskType(E), ReadsAs(E, D, ListOf(D) \ {p, q}),
         E[q].entries = D[q].entries, E[q].tail = D[p].tail, E[q].split = D[p].split
  PROVE  /\ Shape(E, {}) /\ ListOf(E) = ListOf(D) \ {p} /\ q # p
         /\ OrphansOf(E, {}) = OrphansOf(D, {}) \ {p}
<1> DEFINE S == ListOf(D)
           T == S \ {p}
<1>1. DiskType(D) /\ Threaded(D) /\ Named(D)
  BY DEF Shape
<1>2. q # p /\ p # Root /\ p # NoPair /\ D[p].tail # p /\ p \in Pairs
  BY <1>1, NoLoop, ListClosed, RootTyped DEF Threaded
<1>3. \A r \in S : D[r].tail = p => r = q
  BY <1>1, <1>2 DEF Threaded
<1>4. \A r \in T : r # q => E[r].entries = D[r].entries /\ E[r].tail = D[r].tail /\ E[r].split = D[r].split
  BY DEF ReadsAs
<1>5. ListOf(E) \subseteq T
  <2>1. \A r \in T : E[r].tail # NoPair => E[r].tail \in T
    BY <1>1, <1>2, <1>3, <1>4, ListClosed
  <2> QED
    BY <1>1, <1>2, <2>1, ListClosed, ListLeast
<1>6. T \subseteq ListOf(E)
  <2> DEFINE M == ListOf(E)
  <2>0. Root \in M /\ M \subseteq Pairs /\ \A r \in M : E[r].tail # NoPair => E[r].tail \in M
    BY ListClosed
  <2>1. q \in M
    <3>1. SUFFICES ASSUME q \notin M PROVE FALSE
      OBVIOUS
    <3>2. \A r \in M : D[r].tail # NoPair => D[r].tail \in M
      BY <1>4, <1>5, <2>0, <3>1
    <3>3. S \subseteq M
      BY <2>0, <3>2, ListLeast
    <3> QED
      BY <3>1, <3>3
  <2>2. \A r \in M \cup {p} : D[r].tail # NoPair => D[r].tail \in M \cup {p}
    BY <1>4, <1>5, <2>0, <2>1
  <2>3. M \cup {p} \in SUBSET Pairs /\ Root \in M \cup {p}
    BY <1>2, <2>0
  <2>4. S \subseteq M \cup {p}
    BY <2>2, <2>3, ListLeast
  <2> QED
    BY <2>4
<1>7. ListOf(E) = T
  BY <1>5, <1>6
<1> DEFINE O == Owned(D, {})
           P == Owned(E, {})
<1>8. O \subseteq S /\ Root \in O
  BY <1>1, OwnedListed, OwnedIs
<1>9. \A r \in T : Below(E, {}, r) = Below(D, {}, r)
  BY <1>4 DEF Below
<1>10. Below(D, {}, p) = {}
  <2>1. DOMAIN << >> = {}
    OBVIOUS
  <2> QED
    BY <2>1 DEF Below
<1>11. p \in OrphansOf(D, {}) => ~D[q].split /\ ~D[p].split
  <2>1. D[q].split => q \in O
    BY OrphanAlone
  <2>2. D[q].split => p \in O
    BY <1>1, <1>2, <2>1, OwnedIs
  <2>3. D[p].split => p \in O
    BY OrphanAlone
  <2> QED
    BY <2>2, <2>3 DEF OrphansOf
<1>12. \A r \in S : p \notin Below(D, {}, r)
  <2>1. SUFFICES ASSUME NEW r \in S, p \in Below(D, {}, r) PROVE FALSE
    OBVIOUS
  <2>2. HeadIn(D, p) /\ p \in O
    BY <2>1, BelowHeads
  <2> QED
    BY <2>2 DEF HeadIn, OrphansOf
<1>13. P \subseteq O \ {p}
  <2> DEFINE U == O \ {p}
  <2>1. ASSUME NEW r \in U, E[r].split, E[r].tail # NoPair PROVE E[r].tail \in U
    <3>1. CASE r # q
      BY <1>1, <1>3, <1>4, <1>8, <2>1, <3>1, OwnedIs
    <3>2. CASE r = q
      <4>1. D[p].split /\ D[p].tail # NoPair
        BY <2>1, <3>2
      <4>2. D[q].split
        BY <1>11, <4>1
      <4>3. p \in O
        BY <1>1, <1>2, <2>1, <3>2, <4>2, OwnedIs
      <4> QED
        BY <1>1, <1>2, <3>2, <4>1, <4>3, OwnedIs
    <3> QED
      BY <3>1, <3>2
  <2>2. \A r \in U : Below(E, {}, r) \subseteq U
    BY <1>1, <1>8, <1>9, <1>12, OwnedIs
  <2> QED
    BY <1>1, <1>2, <1>8, <2>1, <2>2, OwnedIs, OwnedWithin
<1>14. O \subseteq P \cup {p}
  <2> DEFINE U == P \cup (IF q \in P /\ D[q].split THEN {p} ELSE {})
  <2>0. P \subseteq T /\ P \subseteq Pairs /\ Root \in P
    BY <1>8, <1>13, OwnedIs
  <2>1. ASSUME NEW r \in U, D[r].split, D[r].tail # NoPair PROVE D[r].tail \in U
    <3>1. CASE r \in P /\ r # q
      BY <1>4, <2>0, <2>1, <3>1, OwnedIs
    <3>2. CASE r \in P /\ r = q
      BY <2>1, <3>2
    <3>3. CASE r \notin P
      <4>1. r = p /\ q \in P
        BY <3>3
      <4> QED
        BY <2>1, <4>1, OwnedIs
    <3> QED
      BY <3>1, <3>2, <3>3
  <2>2. \A r \in U : Below(D, {}, r) \subseteq U
    BY <1>9, <1>10, <2>0, OwnedIs
  <2>3. U \in SUBSET Pairs /\ Root \in U
    BY <1>2, <2>0
  <2> HIDE DEF U
  <2>4. O \subseteq U
    BY <2>1, <2>2, <2>3, OwnedWithin
  <2> QED
    BY <2>4 DEF U
<1>15. OrphansOf(E, {}) = OrphansOf(D, {}) \ {p}
  BY <1>7, <1>13, <1>14 DEF OrphansOf
<1>16. Threaded(E)
  <2>1. \A r \in T : E[r].tail # Root /\ (E[r].split => E[r].tail # NoPair)
    BY <1>1, <1>4 DEF Threaded
  <2>2. ASSUME NEW r \in T, NEW s \in T, E[r].tail = E[s].tail, E[r].tail # NoPair PROVE r = s
    <3>1. CASE r # q /\ s # q
      BY <1>1, <1>4, <2>2, <3>1 DEF Threaded
    <3>2. CASE r = q /\ s # q
      BY <1>1, <1>4, <2>2, <3>2 DEF Threaded
    <3>3. CASE r # q /\ s = q
      BY <1>1, <1>4, <2>2, <3>3 DEF Threaded
    <3> QED
      BY <3>1, <3>2, <3>3
  <2> QED
    BY <1>7, <2>1, <2>2 DEF Threaded
<1>17. Named(E)
  <2>1. ASSUME NEW r \in T, NEW i \in DOMAIN E[r].entries, E[r].entries[i].obj \in Pairs
        PROVE  E[r].entries[i].obj \in T /\ HeadIn(E, E[r].entries[i].obj)
    <3> DEFINE o == E[r].entries[i].obj
    <3>1. i \in DOMAIN D[r].entries /\ D[r].entries[i].obj = o
      BY <1>4
    <3>2. o \in Below(D, {}, r)
      BY <2>1, <3>1 DEF Below
    <3>3. o \in T /\ HeadIn(D, o)
      BY <1>12, <3>2, BelowHeads
    <3>4. ASSUME NEW s \in T, E[s].tail = o PROVE ~E[s].split
      BY <1>4, <3>3, <3>4 DEF HeadIn
    <3> QED
      BY <1>7, <3>3, <3>4 DEF HeadIn
  <2> QED
    BY <1>7, <2>1 DEF Named
<1>18. NamedOnce(E, {})
  <2>1. \A r \in T : E[r].entries = D[r].entries
    BY <1>4
  <2> QED
    BY <1>7, <2>1 DEF Shape, NamedOnce
<1>19. OneMove(E, {})
  BY DEF OneMove
<1>20. OrphansEmpty(E, {})
  <2>1. ASSUME NEW r \in OrphansOf(D, {}) \ {p} PROVE EmptyIn(E, r)
    <3>1. EmptyIn(D, r) /\ r \in T
      BY DEF Shape, OrphansEmpty, OrphansOf
    <3>2. CASE r # q
      BY <1>4, <3>1, <3>2 DEF EmptyIn
    <3>3. CASE r = q
      <4>1. ~D[q].split
        BY <3>1, <3>3 DEF EmptyIn
      <4> QED
        BY <1>11, <3>1, <3>3, <4>1 DEF EmptyIn
    <3> QED
      BY <3>2, <3>3
  <2> QED
    BY <1>15, <2>1 DEF OrphansEmpty
<1> QED
  BY <1>2, <1>7, <1>15, <1>16, <1>17, <1>18, <1>19, <1>20 DEF Shape
\* A pair put on the list behind p.
LEMMA Threading ==
  ASSUME NEW D, DiskType(D), Threaded(D), NEW p \in ListOf(D), NEW q \in Pairs, q \notin ListOf(D),
         NEW E, DiskType(E),
         \A r \in ListOf(D) \ {p} : E[r].tail = D[r].tail /\ E[r].split = D[r].split,
         E[p].tail = q, E[q].tail = D[p].tail, E[q].split = D[p].split
  PROVE  /\ ListOf(E) = ListOf(D) \cup {q} /\ Threaded(E)
         /\ \A o \in ListOf(D) : HeadIn(D, o) => HeadIn(E, o)
<1> DEFINE S == ListOf(D)
<1>1. /\ Root \in S /\ S \subseteq Pairs /\ p \in Pairs /\ q # p /\ q # NoPair /\ q # Root
      /\ \A r \in S : D[r].tail # NoPair => D[r].tail \in S
      /\ \A r \in S : D[r].tail # q
  BY ListClosed, RootTyped
<1>2. ListOf(E) \subseteq S \cup {q}
  <2>1. S \cup {q} \in SUBSET Pairs /\ Root \in S \cup {q}
    BY <1>1
  <2>2. \A r \in S \cup {q} : E[r].tail # NoPair => E[r].tail \in S \cup {q}
    BY <1>1
  <2> QED
    BY <2>1, <2>2, ListLeast
<1>3. S \cup {q} \subseteq ListOf(E)
  <2> DEFINE M == ListOf(E)
  <2>0. Root \in M /\ M \subseteq Pairs /\ \A r \in M : E[r].tail # NoPair => E[r].tail \in M
    BY ListClosed
  <2>1. p \in M => q \in M
    BY <1>1, <2>0
  <2>2. ASSUME NEW r \in M \cap S, D[r].tail # NoPair PROVE D[r].tail \in M \cap S
    <3>1. D[r].tail \in S
      BY <1>1, <2>2
    <3>2. CASE r = p
      <4>1. q \in M /\ E[q].tail # NoPair
        BY <2>1, <2>2, <3>2
      <4> QED
        BY <2>0, <3>1, <3>2, <4>1
    <3>3. CASE r # p
      BY <2>0, <2>2, <3>1, <3>3
    <3> QED
      BY <3>2, <3>3
  <2>3. M \cap S \in SUBSET Pairs /\ Root \in M \cap S
    BY <1>1, <2>0
  <2>4. S \subseteq M \cap S
    BY <2>2, <2>3, ListLeast
  <2> QED
    BY <2>1, <2>4
<1>4. ListOf(E) = S \cup {q}
  BY <1>2, <1>3
<1>5. Threaded(E)
  <2>1. \A r \in S \cup {q} : E[r].tail # Root /\ (E[r].split => E[r].tail # NoPair)
    BY <1>1 DEF Threaded
  <2>2. ASSUME NEW r \in S \cup {q}, NEW s \in S \cup {q}, E[r].tail = E[s].tail, E[r].tail # NoPair
        PROVE  r = s
    <3> DEFINE was(x) == IF x = q THEN p ELSE x
    <3>1. CASE r = p \/ s = p
      BY <1>1, <2>2, <3>1
    <3>2. CASE r # p /\ s # p
      <4>1. was(r) \in S /\ was(s) \in S /\ D[was(r)].tail = E[r].tail /\ D[was(s)].tail = E[s].tail
        BY <3>2
      <4>2. was(r) = was(s)
        BY <2>2, <4>1 DEF Threaded
      <4> QED
        BY <3>2, <4>2
    <3> QED
      BY <3>1, <3>2
  <2> QED
    BY <1>4, <2>1, <2>2 DEF Threaded
<1>6. ASSUME NEW o \in S, HeadIn(D, o) PROVE HeadIn(E, o)
  <2>1. ASSUME NEW r \in S \cup {q}, E[r].tail = o PROVE ~E[r].split
    <3>1. r # p
      BY <2>1
    <3>2. CASE r = q
      BY <1>6, <2>1, <3>2 DEF HeadIn
    <3>3. CASE r # q
      BY <1>6, <2>1, <3>1, <3>3 DEF HeadIn
    <3> QED
      BY <3>2, <3>3
  <2> QED
    BY <1>4, <1>6, <2>1 DEF HeadIn
<1> QED
  BY <1>4, <1>5, <1>6

\* The pair of a new directory is put on the list, and is an orphan.
Links(D, E, p, q) ==
  /\ ~D[p].split /\ EmptyIn(D, q) /\ D[q].tail = D[p].tail
  /\ DiskType(E) /\ ReadsAs(E, D, (ListOf(D) \cup {q}) \ {p})
  /\ E[p].entries = D[p].entries /\ E[p].tail = q /\ E[p].split = FALSE
Joined(D, E, mv, q) ==
  /\ Shape(E, mv) /\ ListOf(E) = ListOf(D) \cup {q}
  /\ OrphansOf(E, mv) = OrphansOf(D, mv) \cup {q}

LEMMA Linked ==
  ASSUME NEW D, NEW mv, Shape(D, mv), NEW p \in ListOf(D), NEW q \in Pairs, q \notin ListOf(D),
         NEW E, Links(D, E, p, q)
  PROVE  Joined(D, E, mv, q)
<1> USE DEF Links
<1> DEFINE S == ListOf(D)
           O == Owned(D, mv)
           P == Owned(E, mv)
<1>1. /\ DiskType(D) /\ Threaded(D) /\ Named(D) /\ mv \in SUBSET (Pairs \X (Nat \ {0}))
      /\ S \subseteq Pairs /\ p \in Pairs /\ q # p
  BY ListClosed DEF Shape
<1>2. D[q].entries = <<>> /\ ~D[q].split /\ E[q].entries = <<>> /\ ~E[q].split /\ E[q].tail = D[p].tail
  BY <1>1 DEF EmptyIn, ReadsAs
<1>3. E[q].split = D[p].split /\ \A r \in S \ {p} : E[r].tail = D[r].tail /\ E[r].split = D[r].split
  <2>1. D[p].split \in BOOLEAN /\ E[q].split \in BOOLEAN
    BY <1>1, DiskTyped
  <2> QED
    BY <1>2, <2>1 DEF ReadsAs
<1>4. /\ ListOf(E) = S \cup {q} /\ Threaded(E)
      /\ \A o \in S : HeadIn(D, o) => HeadIn(E, o)
  BY <1>1, <1>2, <1>3, Threading
<1>5. \A r \in S \cup {q} : E[r].entries = D[r].entries
  BY DEF ReadsAs
<1>6. \A r \in S \cup {q} : Below(E, mv, r) = Below(D, mv, r)
  BY <1>5 DEF Below
<1>7. O \subseteq S /\ O \subseteq Pairs /\ Root \in O
  BY <1>1, OwnedListed, OwnedIs
<1>8. P \subseteq O
  <2>1. \A r \in O : E[r].split /\ E[r].tail # NoPair => E[r].tail \in O
    BY <1>1, <1>3, <1>7, OwnedIs
  <2>2. \A r \in O : Below(E, mv, r) \subseteq O
    BY <1>1, <1>6, <1>7, OwnedIs
  <2> QED
    BY <1>7, <2>1, <2>2, OwnedWithin
<1>9. O \subseteq P
  <2>0. P \subseteq S /\ P \subseteq Pairs /\ Root \in P
    BY <1>7, <1>8, OwnedIs
  <2>1. \A r \in P : D[r].split /\ D[r].tail # NoPair => D[r].tail \in P
    BY <1>3, <2>0, OwnedIs
  <2>2. \A r \in P : Below(D, mv, r) \subseteq P
    BY <1>6, <2>0, OwnedIs
  <2> QED
    BY <2>0, <2>1, <2>2, OwnedWithin
<1>10. OrphansOf(E, mv) = OrphansOf(D, mv) \cup {q}
  BY <1>4, <1>7, <1>8, <1>9 DEF OrphansOf
<1>11. Named(E)
  <2>1. DOMAIN << >> = {}
    OBVIOUS
  <2> QED
    BY <1>1, <1>2, <1>4, <1>5, <2>1 DEF Named
<1>12. NamedOnce(E, mv)
  <2>1. DOMAIN << >> = {}
    OBVIOUS
  <2> QED
    BY <1>2, <1>4, <1>5, <2>1 DEF Shape, NamedOnce
<1>13. OneMove(E, mv)
  BY <1>4, <1>5 DEF Shape, OneMove
<1>14. OrphansEmpty(E, mv)
  <2>1. \A r \in S : E[r].split = D[r].split
    <3>1. D[p].split \in BOOLEAN /\ E[p].split \in BOOLEAN
      BY <1>1, DiskTyped
    <3> QED
      BY <1>3, <3>1
  <2> QED
    BY <1>2, <1>5, <1>10, <2>1 DEF Shape, OrphansEmpty, EmptyIn, OrphansOf
<1> QED
  BY <1>1, <1>4, <1>10, <1>11, <1>12, <1>13, <1>14 DEF Shape, Joined

LEMMA TakeDrop ==
  ASSUME NEW T, NEW s \in Seq(T), NEW k \in 1..(Len(s) - 1)
  PROVE  /\ DOMAIN s = 1..Len(s)
         /\ DOMAIN SubSeq(s, 1, k) = 1..k /\ \A i \in 1..k : SubSeq(s, 1, k)[i] = s[i]
         /\ DOMAIN SubSeq(s, k + 1, Len(s)) = 1..(Len(s) - k)
         /\ \A i \in 1..(Len(s) - k) : SubSeq(s, k + 1, Len(s))[i] = s[k + i] /\ k + i \in 1..Len(s)
<1>1. Len(s) \in Nat /\ k \in Nat /\ DOMAIN s = 1..Len(s)
  OBVIOUS
<1>2. Len(SubSeq(s, 1, k)) = k /\ \A i \in 1..k : SubSeq(s, 1, k)[i] = s[i]
  BY <1>1
<1>3. /\ Len(SubSeq(s, k + 1, Len(s))) = Len(s) - k
      /\ \A i \in 1..(Len(s) - k) : SubSeq(s, k + 1, Len(s))[i] = s[k + 1 + i - 1]
  BY <1>1
<1>4. \A i \in 1..(Len(s) - k) : k + 1 + i - 1 = k + i /\ k + i \in 1..Len(s)
  BY <1>1
<1>5. SubSeq(s, 1, k) \in Seq(T) /\ SubSeq(s, k + 1, Len(s)) \in Seq(T)
  BY <1>1
<1>6. DOMAIN SubSeq(s, 1, k) = 1..k /\ DOMAIN SubSeq(s, k + 1, Len(s)) = 1..(Len(s) - k)
  BY <1>2, <1>3, <1>5
<1> QED
  BY <1>1, <1>2, <1>3, <1>4, <1>6

\* Pair p splits: q, behind it, takes what is beyond k.
Splits(D, E, p, q, k) ==
  /\ k \in 1..(Len(D[p].entries) - 1)
  /\ DiskType(E) /\ ReadsAs(E, D, ListOf(D) \ {p})
  /\ E[p].entries = SubSeq(D[p].entries, 1, k) /\ E[p].tail = q /\ E[p].split = TRUE
  /\ E[q].entries = SubSeq(D[p].entries, k + 1, Len(D[p].entries))
  /\ E[q].tail = D[p].tail /\ E[q].split = D[p].split
Apart(D, E, mv, q) ==
  /\ Shape(E, mv) /\ ListOf(E) = ListOf(D) \cup {q} /\ OrphansOf(E, mv) = OrphansOf(D, mv)

LEMMA Parted ==
  ASSUME NEW D, NEW mv, Shape(D, mv), NEW p \in ListOf(D), NEW q \in Pairs, q \notin ListOf(D),
         \A m \in mv : m[1] # p, NEW E, NEW k, Splits(D, E, p, q, k)
  PROVE  Apart(D, E, mv, q)
<1> USE DEF Splits
<1> DEFINE S == ListOf(D)
           es == D[p].entries
           O == Owned(D, mv)
           P == Owned(E, mv)
<1>1. /\ DiskType(D) /\ Threaded(D) /\ Named(D) /\ mv \in SUBSET (Pairs \X (Nat \ {0}))
      /\ S \subseteq Pairs /\ p \in Pairs /\ q # p /\ q # NoPair
  BY ListClosed, RootTyped DEF Shape
<1>2. \A r \in S \ {p} : E[r].tail = D[r].tail /\ E[r].split = D[r].split /\ E[r].entries = D[r].entries
  BY DEF ReadsAs
<1>3. /\ ListOf(E) = S \cup {q} /\ Threaded(E)
      /\ \A o \in S : HeadIn(D, o) => HeadIn(E, o)
  BY <1>1, <1>2, Threading
<1>4. es \in Seq(EntryType) /\ Len(es) \in Nat /\ k \in Nat
  BY <1>1, DiskTyped
<1>5. /\ DOMAIN es = 1..Len(es) /\ DOMAIN E[p].entries = 1..k /\ DOMAIN E[q].entries = 1..(Len(es) - k)
      /\ \A i \in 1..k : E[p].entries[i] = es[i]
      /\ \A i \in 1..(Len(es) - k) : E[q].entries[i] = es[k + i] /\ k + i \in 1..Len(es)
  <2>1. k \in 1..(Len(es) - 1)
    OBVIOUS
  <2>2. E[p].entries = SubSeq(es, 1, k) /\ E[q].entries = SubSeq(es, k + 1, Len(es))
    OBVIOUS
  <2> HIDE DEF Splits, es
  <2> QED
    BY <1>4, <2>1, <2>2, TakeDrop
<1>6. \A m \in mv : m[1] # p /\ m[1] # q
  BY DEF Shape, OneMove
<1>7. \A r, i : (r = p \/ r = q) => <<r, i>> \notin mv
  BY <1>6
<1>8. \A r \in S \ {p} : Below(E, mv, r) = Below(D, mv, r)
  BY <1>2 DEF Below
<1>9. Below(D, mv, p) = Below(E, mv, p) \cup Below(E, mv, q)
  <2>0. 1..k \subseteq 1..Len(es)
    BY <1>4
  <2>1. ASSUME NEW o \in Below(E, mv, p) \cup Below(E, mv, q) PROVE o \in Below(D, mv, p)
    <3>1. /\ o \in Pairs
          /\ \/ \E i \in 1..k : E[p].entries[i].obj = o
             \/ \E i \in 1..(Len(es) - k) : E[q].entries[i].obj = o
      BY <1>5, <2>1 DEF Below
    <3>2. \E i \in 1..Len(es) : es[i].obj = o
      BY <1>5, <2>0, <3>1
    <3> QED
      BY <1>5, <1>7, <3>1, <3>2 DEF Below
  <2>2. ASSUME NEW o \in Below(D, mv, p) PROVE o \in Below(E, mv, p) \cup Below(E, mv, q)
    <3>1. PICK i \in 1..Len(es) : es[i].obj = o
      BY <1>5 DEF Below
    <3>2. o \in Pairs
      BY DEF Below
    <3>3. CASE i <= k
      <4>1. i \in 1..k
        BY <1>4, <3>3
      <4> QED
        BY <1>5, <1>7, <3>1, <3>2, <4>1 DEF Below
    <3>4. CASE ~(i <= k)
      <4>1. i - k \in 1..(Len(es) - k) /\ k + (i - k) = i
        BY <1>4, <3>4
      <4>2. i - k \in DOMAIN E[q].entries /\ E[q].entries[i - k].obj = o
        BY <1>5, <3>1, <4>1
      <4> QED
        BY <1>7, <3>2, <4>2 DEF Below
    <3> QED
      BY <3>3, <3>4
  <2> QED
    BY <2>1, <2>2
<1>10. O \subseteq S /\ O \subseteq Pairs /\ Root \in O
  BY <1>1, OwnedListed, OwnedIs
<1>11. p \in O
  <2>1. es # <<>>
    BY <1>4
  <2> QED
    BY <2>1, OrphanAlone
<1>12. P \subseteq O \cup {q}
  <2>1. ASSUME NEW r \in O \cup {q}, E[r].split, E[r].tail # NoPair PROVE E[r].tail \in O \cup {q}
    <3>1. CASE r \in {p, q}
      BY <1>1, <1>11, <2>1, <3>1, OwnedIs
    <3>2. CASE r \notin {p, q}
      BY <1>1, <1>2, <1>10, <2>1, <3>2, OwnedIs
    <3> QED
      BY <3>1, <3>2
  <2>2. ASSUME NEW r \in O \cup {q} PROVE Below(E, mv, r) \subseteq O \cup {q}
    <3>1. CASE r \in {p, q}
      BY <1>1, <1>9, <1>11, <3>1, OwnedIs
    <3>2. CASE r \notin {p, q}
      BY <1>1, <1>8, <1>10, <3>2, OwnedIs
    <3> QED
      BY <3>1, <3>2
  <2>3. O \cup {q} \in SUBSET Pairs /\ Root \in O \cup {q}
    BY <1>10
  <2> QED
    BY <2>1, <2>2, <2>3, OwnedWithin
<1>13. O \cup {q} \subseteq P
  <2>0. P \subseteq S \cup {q} /\ P \subseteq Pairs /\ Root \in P
    BY <1>10, <1>12, OwnedIs
  <2>1. p \in P => q \in P
    BY <1>1, OwnedIs
  <2>2. ASSUME NEW r \in P \cap S, D[r].split, D[r].tail # NoPair PROVE D[r].tail \in P \cap S
    <3>1. D[r].tail \in S
      BY <1>1, <2>2, ListClosed
    <3>2. CASE r = p
      <4>1. q \in P /\ E[q].split /\ E[q].tail # NoPair
        BY <2>1, <2>2, <3>2
      <4> QED
        BY <3>1, <3>2, <4>1, OwnedIs
    <3>3. CASE r # p
      BY <1>2, <2>2, <3>1, <3>3, OwnedIs
    <3> QED
      BY <3>2, <3>3
  <2>3. ASSUME NEW r \in P \cap S PROVE Below(D, mv, r) \subseteq P \cap S
    <3>1. Below(D, mv, r) \subseteq S
      BY <1>1 DEF Below, Named
    <3>2. CASE r = p
      BY <1>9, <2>1, <3>1, <3>2, OwnedIs
    <3>3. CASE r # p
      BY <1>8, <3>1, <3>3, OwnedIs
    <3> QED
      BY <3>2, <3>3
  <2>4. P \cap S \in SUBSET Pairs /\ Root \in P \cap S
    BY <1>10, <2>0
  <2>5. O \subseteq P \cap S
    BY <2>2, <2>3, <2>4, OwnedWithin
  <2> QED
    BY <1>11, <2>1, <2>5
<1>14. OrphansOf(E, mv) = OrphansOf(D, mv)
  BY <1>3, <1>10, <1>12, <1>13 DEF OrphansOf
<1>15. ASSUME NEW r \in S \cup {q}, NEW i \in DOMAIN E[r].entries
       PROVE  LET s == IF r = q THEN p ELSE r
                  j == IF r = q THEN k + i ELSE i
              IN s \in S /\ j \in DOMAIN D[s].entries /\ E[r].entries[i] = D[s].entries[j]
  <2>1. CASE r = q
    BY <1>5, <2>1
  <2>2. CASE r = p
    BY <1>1, <1>4, <1>5, <2>2
  <2>3. CASE r # p /\ r # q
    BY <1>2, <2>3
  <2> QED
    BY <2>1, <2>2, <2>3
<1>16. Named(E)
  <2>1. ASSUME NEW r \in S \cup {q}, NEW i \in DOMAIN E[r].entries, E[r].entries[i].obj \in Pairs
        PROVE  E[r].entries[i].obj \in S /\ HeadIn(E, E[r].entries[i].obj)
    <3> DEFINE s == IF r = q THEN p ELSE r
               j == IF r = q THEN k + i ELSE i
    <3>1. s \in S /\ j \in DOMAIN D[s].entries /\ E[r].entries[i] = D[s].entries[j]
      BY <1>15
    <3> HIDE DEF s, j
    <3>2. D[s].entries[j].obj \in S /\ HeadIn(D, D[s].entries[j].obj)
      BY <1>1, <2>1, <3>1 DEF Named
    <3> QED
      BY <1>3, <3>1, <3>2
  <2> QED
    BY <1>3, <2>1 DEF Named
<1>17. NamedOnce(E, mv)
  <2>1. ASSUME NEW r \in S \cup {q}, NEW u \in S \cup {q}, NEW i \in DOMAIN E[r].entries, NEW j \in DOMAIN E[u].entries,
               <<r, i>> \notin mv, <<u, j>> \notin mv,
               E[r].entries[i].obj = E[u].entries[j].obj, E[r].entries[i].obj \in Pairs
        PROVE  r = u /\ i = j
    <3> DEFINE s == IF r = q THEN p ELSE r
               a == IF r = q THEN k + i ELSE i
               t == IF u = q THEN p ELSE u
               b == IF u = q THEN k + j ELSE j
    <3>1. /\ s \in S /\ a \in DOMAIN D[s].entries /\ E[r].entries[i] = D[s].entries[a]
          /\ t \in S /\ b \in DOMAIN D[t].entries /\ E[u].entries[j] = D[t].entries[b]
      BY <1>15
    <3>2. <<s, a>> \notin mv /\ <<t, b>> \notin mv
      BY <1>7, <2>1
    <3>3. s = t /\ a = b
      BY <2>1, <3>1, <3>2 DEF Shape, NamedOnce
    <3>4. CASE r = q /\ u = q
      <4>1. i \in 1..(Len(es) - k) /\ j \in 1..(Len(es) - k) /\ k + i = k + j
        BY <1>5, <3>3, <3>4
      <4>2. i = j
        BY <1>4, <4>1
      <4> QED
        BY <3>4, <4>2
    <3>5. CASE r = q /\ u # q
      <4>1. u = p /\ j = k + i /\ j \in 1..k /\ i \in 1..(Len(es) - k)
        BY <1>1, <1>5, <3>3, <3>5
      <4> QED
        BY <1>4, <4>1
    <3>6. CASE r # q /\ u = q
      <4>1. r = p /\ i = k + j /\ i \in 1..k /\ j \in 1..(Len(es) - k)
        BY <1>1, <1>5, <3>3, <3>6
      <4> QED
        BY <1>4, <4>1
    <3>7. CASE r # q /\ u # q
      BY <3>3, <3>7
    <3> QED
      BY <3>4, <3>5, <3>6, <3>7
  <2> QED
    BY <1>3, <2>1 DEF NamedOnce
<1>18. OneMove(E, mv)
  BY <1>2, <1>3, <1>6 DEF Shape, OneMove
<1>19. OrphansEmpty(E, mv)
  <2>1. ASSUME NEW r \in OrphansOf(D, mv) PROVE EmptyIn(E, r)
    <3>1. r \in S \ {p} /\ EmptyIn(D, r)
      BY <1>11 DEF Shape, OrphansEmpty, OrphansOf
    <3> QED
      BY <1>2, <3>1 DEF EmptyIn
  <2> QED
    BY <1>14, <2>1 DEF OrphansEmpty
<1> QED
  BY <1>1, <1>3, <1>14, <1>16, <1>17, <1>18, <1>19 DEF Shape, Apart
-----------------------------------------------------------------------------
(* Entries *)

LEMMA JoinIs ==
  ASSUME NEW T, NEW a \in Seq(T), NEW b \in Seq(T)
  PROVE  /\ a \o b \in Seq(T) /\ Len(a \o b) = Len(a) + Len(b)
         /\ \A i \in 1..Len(a) : (a \o b)[i] = a[i]
         /\ \A i \in 1..Len(b) : (a \o b)[Len(a) + i] = b[i]
<1> DEFINE m == Len(a)
           n == Len(b)
<1>0. m \in Nat /\ n \in Nat
  OBVIOUS
<1>1. a \o b \in Seq(T) /\ Len(a \o b) = m + n
  OBVIOUS
<1>2. \A i \in 1..(m + n) : (a \o b)[i] = IF i <= m THEN a[i] ELSE b[i - m]
  BY ConcatProperties
<1> HIDE DEF m, n
<1>3. ASSUME NEW i \in 1..m PROVE (a \o b)[i] = a[i]
  <2>1. i \in 1..(m + n) /\ i <= m
    BY <1>0
  <2> QED
    BY <1>2, <2>1
<1>4. ASSUME NEW i \in 1..n PROVE (a \o b)[m + i] = b[i]
  <2>1. m + i \in 1..(m + n) /\ ~(m + i <= m) /\ (m + i) - m = i
    BY <1>0
  <2> QED
    BY <1>2, <2>1
<1> QED
  BY <1>1, <1>3, <1>4 DEF m, n

LEMMA InsertIs ==
  ASSUME NEW T, NEW s \in Seq(T), NEW j \in 1..(Len(s) + 1), NEW x \in T
  PROVE  LET r == InsertAt(s, j, x) IN
         /\ r \in Seq(T) /\ DOMAIN r = 1..(Len(s) + 1) /\ Len(r) = Len(s) + 1 /\ r[j] = x
         /\ \A i \in 1..Len(s) : (i < j => r[i] = s[i]) /\ (j <= i => r[i + 1] = s[i])
<1> DEFINE a == SubSeq(s, 1, j - 1)
           b == SubSeq(s, j, Len(s))
           r == (a \o <<x>>) \o b
<1>1. Len(s) \in Nat /\ j \in Nat /\ DOMAIN s = 1..Len(s)
  OBVIOUS
<1>2. a \in Seq(T) /\ Len(a) = j - 1 /\ \A i \in 1..(j - 1) : a[i] = s[i]
  BY <1>1
<1>3. b \in Seq(T) /\ Len(b) = Len(s) - j + 1 /\ \A i \in 1..(Len(s) - j + 1) : b[i] = s[j + i - 1]
  BY <1>1
<1>4. <<x>> \in Seq(T) /\ Len(<<x>>) = 1 /\ <<x>>[1] = x
  OBVIOUS
<1> HIDE DEF a, b
<1> DEFINE c == a \o <<x>>
<1>5. /\ c \in Seq(T) /\ Len(c) = j
      /\ \A i \in 1..(j - 1) : c[i] = a[i]
      /\ \A i \in 1..1 : c[j - 1 + i] = <<x>>[i]
  <2> DEFINE m == j - 1
  <2>1. m \in Nat /\ 1 \in Nat /\ m + 1 = j /\ Len(a) = m
    BY <1>1, <1>2
  <2> HIDE DEF m
  <2>2. /\ a \o <<x>> \in Seq(T) /\ Len(a \o <<x>>) = m + 1
        /\ \A i \in 1..m : (a \o <<x>>)[i] = a[i]
        /\ \A i \in 1..1 : (a \o <<x>>)[m + i] = <<x>>[i]
    <3>1. /\ a \o <<x>> \in Seq(T) /\ Len(a \o <<x>>) = Len(a) + Len(<<x>>)
          /\ \A i \in 1..Len(a) : (a \o <<x>>)[i] = a[i]
          /\ \A i \in 1..Len(<<x>>) : (a \o <<x>>)[Len(a) + i] = <<x>>[i]
      <4>1. a \in Seq(T) /\ <<x>> \in Seq(T)
        BY <1>2, <1>4
      <4> QED
        BY <4>1, JoinIs
    <3>2. Len(a) = m /\ Len(<<x>>) = 1
      BY <1>4, <2>1
    <3> QED
      BY <3>1, <3>2, Zenon
  <2>3. c \in Seq(T) /\ Len(c) = j
    BY <2>1, <2>2
  <2> QED
    BY <2>2, <2>3 DEF m
<1>6. c[j] = x /\ \A i \in 1..(j - 1) : c[i] = s[i]
  <2>1. 1 \in 1..1 /\ j - 1 + 1 = j
    BY <1>1
  <2> QED
    BY <1>2, <1>4, <1>5, <2>1
<1> HIDE DEF c
<1> DEFINE n == Len(s) - j + 1
<1>7. /\ c \o b \in Seq(T) /\ Len(c \o b) = Len(s) + 1 /\ DOMAIN (c \o b) = 1..(Len(s) + 1)
      /\ \A i \in 1..j : (c \o b)[i] = c[i]
      /\ \A i \in 1..n : (c \o b)[j + i] = b[i]
  <2>1. n \in Nat /\ j + n = Len(s) + 1 /\ Len(b) = n
    BY <1>1, <1>3
  <2> HIDE DEF n
  <2>2. /\ c \o b \in Seq(T) /\ Len(c \o b) = j + n /\ DOMAIN (c \o b) = 1..(j + n)
        /\ \A i \in 1..j : (c \o b)[i] = c[i]
        /\ \A i \in 1..n : (c \o b)[j + i] = b[i]
    <3>1. /\ c \o b \in Seq(T) /\ Len(c \o b) = Len(c) + Len(b)
          /\ \A i \in 1..Len(c) : (c \o b)[i] = c[i]
          /\ \A i \in 1..Len(b) : (c \o b)[Len(c) + i] = b[i]
      <4>1. c \in Seq(T) /\ b \in Seq(T)
        BY <1>3, <1>5
      <4> QED
        BY <4>1, JoinIs
    <3>2. Len(c) = j /\ Len(b) = n
      BY <1>5, <2>1
    <3>3. /\ c \o b \in Seq(T) /\ Len(c \o b) = j + n
          /\ \A i \in 1..j : (c \o b)[i] = c[i]
          /\ \A i \in 1..n : (c \o b)[j + i] = b[i]
      BY <3>1, <3>2, Zenon
    <3>4. DOMAIN (c \o b) = 1..Len(c \o b)
      BY <3>3, LenProperties, Zenon
    <3> QED
      BY <3>3, <3>4
  <2> QED
    BY <2>1, <2>2
<1>8. r = c \o b
  BY DEF c
<1> HIDE DEF r
<1>9. r \in Seq(T) /\ DOMAIN r = 1..(Len(s) + 1) /\ Len(r) = Len(s) + 1 /\ r[j] = x
  BY <1>1, <1>6, <1>7, <1>8
<1>10. ASSUME NEW i \in 1..Len(s) PROVE (i < j => r[i] = s[i]) /\ (j <= i => r[i + 1] = s[i])
  <2>1. ASSUME i < j PROVE r[i] = s[i]
    <3>1. i \in 1..(j - 1) /\ i \in 1..j
      BY <1>1, <2>1
    <3> QED
      BY <1>6, <1>7, <1>8, <3>1
  <2>2. ASSUME j <= i PROVE r[i + 1] = s[i]
    <3>1. i + 1 - j \in 1..n /\ j + (i + 1 - j) = i + 1 /\ j + (i + 1 - j) - 1 = i
      BY <1>1, <2>2
    <3>2. r[i + 1] = b[i + 1 - j]
      BY <1>7, <1>8, <3>1
    <3> QED
      BY <1>3, <3>1, <3>2
  <2> QED
    BY <2>1, <2>2
<1>11. InsertAt(s, j, x) = r
  BY DEF InsertAt, a, b, r
<1> QED
  BY <1>9, <1>10, <1>11

LEMMA RemoveIs ==
  ASSUME NEW T, NEW s \in Seq(T), NEW k \in 1..Len(s)
  PROVE  LET r == RemoveAt(s, k) IN
         /\ r \in Seq(T) /\ DOMAIN r = 1..(Len(s) - 1) /\ Len(r) = Len(s) - 1
         /\ \A i \in 1..(Len(s) - 1) : r[i] = s[IF k <= i THEN i + 1 ELSE i]
<1> DEFINE a == SubSeq(s, 1, k - 1)
           b == SubSeq(s, k + 1, Len(s))
           r == a \o b
<1>1. Len(s) \in Nat /\ k \in Nat /\ DOMAIN s = 1..Len(s)
  OBVIOUS
<1>2. a \in Seq(T) /\ Len(a) = k - 1 /\ \A i \in 1..(k - 1) : a[i] = s[i]
  BY <1>1
<1>3. b \in Seq(T) /\ Len(b) = Len(s) - k /\ \A i \in 1..(Len(s) - k) : b[i] = s[k + i]
  <2>1. b \in Seq(T) /\ Len(b) = Len(s) - k
    <3>1. \A i \in (k + 1)..Len(s) : s[i] \in T
      BY <1>1
    <3>2. k + 1 \in Int /\ Len(s) \in Int
      BY <1>1
    <3>3. b \in Seq(T) /\ Len(b) = IF k + 1 <= Len(s) THEN Len(s) - (k + 1) + 1 ELSE 0
      BY <3>1, <3>2, SubSeqProperties
    <3>4. (k + 1 <= Len(s) => Len(s) - (k + 1) + 1 = Len(s) - k) /\ (~(k + 1 <= Len(s)) => Len(s) - k = 0)
      <4> DEFINE n == Len(s)
      <4>1. n \in Nat /\ k \in Nat /\ k <= n
        BY <1>1
      <4> HIDE DEF n
      <4>2. (k + 1 <= n => n - (k + 1) + 1 = n - k) /\ (~(k + 1 <= n) => n - k = 0)
        BY <4>1
      <4> QED
        BY <4>2 DEF n
    <3> HIDE DEF b
    <3> QED
      BY <3>3, <3>4
  <2>2. ASSUME NEW i \in 1..(Len(s) - k) PROVE b[i] = s[k + i]
    <3>1. k + i \in 1..Len(s) /\ k + 1 + i - 1 = k + i
      BY <1>1
    <3> QED
      BY <1>1, <3>1
  <2> QED
    BY <2>1, <2>2
<1> HIDE DEF a, b
<1> DEFINE m == k - 1
           n == Len(s) - k
<1>4. /\ r \in Seq(T) /\ Len(r) = Len(s) - 1
      /\ \A i \in 1..m : r[i] = a[i]
      /\ \A i \in 1..n : r[m + i] = b[i]
  <2>1. m \in Nat /\ n \in Nat /\ m + n = Len(s) - 1 /\ Len(a) = m /\ Len(b) = n
    BY <1>1, <1>2, <1>3
  <2> HIDE DEF m, n
  <2>2. /\ a \o b \in Seq(T) /\ Len(a \o b) = m + n
        /\ \A i \in 1..m : (a \o b)[i] = a[i]
        /\ \A i \in 1..n : (a \o b)[m + i] = b[i]
    <3>1. /\ a \o b \in Seq(T) /\ Len(a \o b) = Len(a) + Len(b)
          /\ \A i \in 1..Len(a) : (a \o b)[i] = a[i]
          /\ \A i \in 1..Len(b) : (a \o b)[Len(a) + i] = b[i]
      <4>1. a \in Seq(T) /\ b \in Seq(T)
        BY <1>2, <1>3
      <4> QED
        BY <4>1, JoinIs
    <3> QED
      BY <2>1, <3>1, Zenon
  <2> QED
    BY <2>1, <2>2
<1>5. ASSUME NEW i \in 1..(Len(s) - 1) PROVE r[i] = s[IF k <= i THEN i + 1 ELSE i]
  <2>1. CASE k <= i
    <3>1. i - m \in 1..n /\ m + (i - m) = i /\ k + (i - m) = i + 1
      BY <1>1, <2>1
    <3>2. r[i] = b[i - m]
      BY <1>4, <3>1
    <3> QED
      BY <1>3, <2>1, <3>1, <3>2
  <2>2. CASE ~(k <= i)
    <3>1. i \in 1..m
      BY <1>1, <2>2
    <3> QED
      BY <1>2, <1>4, <2>2, <3>1
  <2> QED
    BY <2>1, <2>2
<1>6. RemoveAt(s, k) = r
  BY DEF RemoveAt, a, b
<1>7. DOMAIN r = 1..(Len(s) - 1)
  BY <1>4
<1> HIDE DEF r
<1> QED
  BY <1>4, <1>5, <1>6, <1>7

LEMMA ReplaceIs ==
  ASSUME NEW T, NEW s \in Seq(T), NEW k \in 1..Len(s), NEW x \in T
  PROVE  LET r == ReplaceAt(s, k, x) IN
         /\ r \in Seq(T) /\ DOMAIN r = 1..Len(s) /\ Len(r) = Len(s)
         /\ r[k] = x /\ \A i \in 1..Len(s) : i # k => r[i] = s[i]
BY DEF ReplaceAt

\* The list is where it was, and so are the directories' first pairs.
LEMMA SameTails ==
  ASSUME NEW D, DiskType(D), NEW E, DiskType(E),
         \A r \in ListOf(D) : E[r].tail = D[r].tail /\ E[r].split = D[r].split
  PROVE  /\ ListOf(E) = ListOf(D) /\ (Threaded(D) => Threaded(E))
         /\ \A o : HeadIn(D, o) => HeadIn(E, o)
<1> DEFINE S == ListOf(D)
<1>1. ListOf(E) \subseteq S
  BY ListClosed, ListLeast
<1>2. S \subseteq ListOf(E)
  <2>1. \A q \in ListOf(E) : D[q].tail # NoPair => D[q].tail \in ListOf(E)
    BY <1>1, ListClosed
  <2> QED
    BY <2>1, ListClosed, ListLeast
<1>3. ListOf(E) = S
  BY <1>1, <1>2
<1>4. Threaded(D) => Threaded(E)
  BY <1>3 DEF Threaded
<1>5. \A o : HeadIn(D, o) => HeadIn(E, o)
  BY <1>3 DEF HeadIn
<1> QED
  BY <1>3, <1>4, <1>5

\* Of the shape, what each change of entries leaves without regard to orphans.
Body(D, mv) == DiskType(D) /\ Threaded(D) /\ Named(D) /\ NamedOnce(D, mv)

\* Entries of pair p only, that a list S goes by, differ between E and D.
EntriesOf(p, D, E) ==
  /\ ReadsAs(E, D, ListOf(D) \ {p})
  /\ E[p].tail = D[p].tail /\ E[p].split = D[p].split

\* Where the entry i of pair r is after an insertion at place j of p.
Shifted(p, j, r, i) == IF r = p /\ j <= i THEN i + 1 ELSE i

LEMMA PutBody ==
  ASSUME NEW D, NEW mv, Body(D, mv), NEW p \in ListOf(D), NEW j \in 1..(Len(D[p].entries) + 1),
         NEW x \in EntryType,
         x.obj \in Pairs => /\ x.obj \in ListOf(D) /\ HeadIn(D, x.obj)
                            /\ \A r \in ListOf(D) : x.obj \notin Below(D, mv, r),
         NEW E, DiskType(E), EntriesOf(p, D, E), E[p].entries = InsertAt(D[p].entries, j, x),
         NEW mw, <<p, j>> \notin mw,
         \A r \in ListOf(D), i \in Nat \ {0} : <<r, Shifted(p, j, r, i)>> \in mw <=> <<r, i>> \in mv
  PROVE  /\ Body(E, mw) /\ ListOf(E) = ListOf(D)
         /\ Below(E, mw, p) = Below(D, mv, p) \cup ({x.obj} \cap Pairs)
         /\ \A r \in ListOf(D) \ {p} : Below(E, mw, r) = Below(D, mv, r)
<1> DEFINE S == ListOf(D)
           es == D[p].entries
<1>1. DiskType(D) /\ Threaded(D) /\ Named(D) /\ S \subseteq Pairs
  BY ListClosed DEF Body
<1>2. ListOf(E) = S /\ Threaded(E) /\ \A o : HeadIn(D, o) => HeadIn(E, o)
  <2>1. \A r \in S : E[r].tail = D[r].tail /\ E[r].split = D[r].split
    BY DEF EntriesOf, ReadsAs
  <2> QED
    BY <1>1, <2>1, SameTails
<1>3. /\ es \in Seq(EntryType) /\ Len(es) \in Nat /\ DOMAIN es = 1..Len(es)
      /\ DOMAIN E[p].entries = 1..(Len(es) + 1) /\ E[p].entries[j] = x
      /\ \A i \in 1..Len(es) : /\ i < j => E[p].entries[i] = es[i]
                               /\ j <= i => E[p].entries[i + 1] = es[i]
  <2>1. es \in Seq(EntryType) /\ E[p].entries = InsertAt(es, j, x)
    BY <1>1, DiskTyped
  <2>2. Len(es) \in Nat /\ DOMAIN es = 1..Len(es)
    BY <2>1
  <2> HIDE DEF es
  <2>3. /\ DOMAIN InsertAt(es, j, x) = 1..(Len(es) + 1) /\ InsertAt(es, j, x)[j] = x
        /\ \A i \in 1..Len(es) : /\ i < j => InsertAt(es, j, x)[i] = es[i]
                                 /\ j <= i => InsertAt(es, j, x)[i + 1] = es[i]
    <3>1. es \in Seq(EntryType) /\ j \in 1..(Len(es) + 1)
      BY <2>1 DEF es
    <3> QED
      BY <3>1, InsertIs
  <2> QED
    BY <2>1, <2>2, <2>3
<1>4. \A r \in S \ {p} : E[r].entries = D[r].entries
  BY DEF EntriesOf, ReadsAs
<1>5. \A r \in S : DOMAIN D[r].entries \subseteq Nat \ {0}
  <2>1. \A r \in S : D[r].entries \in Seq(EntryType)
    BY <1>1, DiskTyped
  <2> QED
    BY <2>1
<1> DEFINE src(i) == IF j < i THEN i - 1 ELSE i
\* An entry of p is the new one or an old one.
<1>6. ASSUME NEW i \in DOMAIN E[p].entries, i # j
      PROVE  src(i) \in DOMAIN es /\ E[p].entries[i] = es[src(i)] /\ Shifted(p, j, p, src(i)) = i
  <2>1. CASE j < i
    <3>1. i - 1 \in 1..Len(es) /\ j <= i - 1 /\ (i - 1) + 1 = i
      BY <1>3, <2>1
    <3> QED
      BY <1>3, <2>1, <3>1 DEF Shifted
  <2>2. CASE ~(j < i)
    <3>1. i \in 1..Len(es) /\ i < j
      BY <1>3, <1>6, <2>2
    <3> QED
      BY <1>3, <2>2, <3>1 DEF Shifted
  <2> QED
    BY <2>1, <2>2
<1>7. ASSUME NEW i \in DOMAIN es
      PROVE  Shifted(p, j, p, i) \in DOMAIN E[p].entries /\ E[p].entries[Shifted(p, j, p, i)] = es[i]
  BY <1>3 DEF Shifted
<1>8. j \in DOMAIN E[p].entries /\ E[p].entries[j] = x
  BY <1>3
<1>9. ASSUME NEW r \in S \ {p}, NEW i \in DOMAIN D[r].entries PROVE <<r, i>> \in mw <=> <<r, i>> \in mv
  <2>1. Shifted(p, j, r, i) = i
    BY DEF Shifted
  <2> QED
    BY <1>5, <2>1
<1>10. \A i \in DOMAIN es : <<p, Shifted(p, j, p, i)>> \in mw <=> <<p, i>> \in mv
  BY <1>5
<1> HIDE DEF es
<1>11. ASSUME NEW r \in S \ {p} PROVE Below(E, mw, r) = Below(D, mv, r)
  BY <1>4, <1>9 DEF Below
<1>12. Below(E, mw, p) = Below(D, mv, p) \cup ({x.obj} \cap Pairs)
  <2>1. ASSUME NEW o \in Below(E, mw, p) PROVE o \in Below(D, mv, p) \cup ({x.obj} \cap Pairs)
    <3>1. o \in Pairs
      BY DEF Below
    <3>2. PICK i \in DOMAIN E[p].entries : <<p, i>> \notin mw /\ E[p].entries[i].obj = o
      BY DEF Below
    <3>3. CASE i = j
      BY <1>8, <3>1, <3>2, <3>3
    <3>4. CASE i # j
      <4>1. src(i) \in DOMAIN es /\ es[src(i)].obj = o /\ <<p, src(i)>> \notin mv
        BY <1>6, <1>10, <3>2, <3>4
      <4> QED
        BY <3>1, <4>1 DEF Below, es
    <3> QED
      BY <3>3, <3>4
  <2>2. ASSUME NEW o \in Below(D, mv, p) PROVE o \in Below(E, mw, p)
    <3>1. PICK i \in DOMAIN es : <<p, i>> \notin mv /\ es[i].obj = o
      BY DEF Below, es
    <3>2. o \in Pairs
      BY DEF Below
    <3> QED
      BY <1>7, <1>10, <3>1, <3>2 DEF Below
  <2>3. ASSUME x.obj \in Pairs PROVE x.obj \in Below(E, mw, p)
    BY <1>8, <2>3 DEF Below
  <2> QED
    BY <2>1, <2>2, <2>3
<1>13. Named(E)
  <2>1. ASSUME NEW r \in S, NEW i \in DOMAIN E[r].entries, E[r].entries[i].obj \in Pairs
        PROVE  E[r].entries[i].obj \in S /\ HeadIn(D, E[r].entries[i].obj)
    <3>1. CASE r # p
      BY <1>1, <1>4, <2>1, <3>1 DEF Named
    <3>2. CASE r = p /\ i = j
      BY <1>8, <2>1, <3>2
    <3>3. CASE r = p /\ i # j
      <4>1. src(i) \in DOMAIN es /\ E[r].entries[i] = es[src(i)]
        BY <1>6, <3>3
      <4> QED
        BY <1>1, <2>1, <3>3, <4>1 DEF Named, es
    <3> QED
      BY <3>1, <3>2, <3>3
  <2> QED
    BY <1>2, <2>1 DEF Named
<1>14. NamedOnce(E, mw)
  <2> DEFINE old(r, i) == IF r = p THEN src(i) ELSE i
  <2>1. ASSUME NEW r \in S, NEW i \in DOMAIN E[r].entries, <<r, i>> \notin mw, ~(r = p /\ i = j)
        PROVE  /\ old(r, i) \in DOMAIN D[r].entries /\ E[r].entries[i] = D[r].entries[old(r, i)]
               /\ <<r, old(r, i)>> \notin mv /\ Shifted(p, j, r, old(r, i)) = i
    <3>1. CASE r # p
      BY <1>4, <1>9, <2>1, <3>1 DEF Shifted
    <3>2. CASE r = p
      <4>1. src(i) \in DOMAIN es /\ E[p].entries[i] = es[src(i)] /\ Shifted(p, j, p, src(i)) = i
        BY <1>6, <2>1, <3>2
      <4> QED
        BY <1>10, <2>1, <3>2, <4>1 DEF es
    <3> QED
      BY <3>1, <3>2
  <2> HIDE DEF old
  <2>2. ASSUME NEW r \in S, NEW u \in S, NEW i \in DOMAIN E[r].entries, NEW k \in DOMAIN E[u].entries,
               <<r, i>> \notin mw, <<u, k>> \notin mw,
               E[r].entries[i].obj = E[u].entries[k].obj, E[r].entries[i].obj \in Pairs
        PROVE  r = u /\ i = k
    <3>1. CASE ~(r = p /\ i = j) /\ ~(u = p /\ k = j)
      <4>1. /\ old(r, i) \in DOMAIN D[r].entries /\ E[r].entries[i] = D[r].entries[old(r, i)]
            /\ <<r, old(r, i)>> \notin mv /\ Shifted(p, j, r, old(r, i)) = i
        BY <2>1, <2>2, <3>1
      <4>2. /\ old(u, k) \in DOMAIN D[u].entries /\ E[u].entries[k] = D[u].entries[old(u, k)]
            /\ <<u, old(u, k)>> \notin mv /\ Shifted(p, j, u, old(u, k)) = k
        BY <2>1, <2>2, <3>1
      <4>3. r = u /\ old(r, i) = old(u, k)
        BY <2>2, <4>1, <4>2 DEF Body, NamedOnce
      <4> QED
        BY <4>1, <4>2, <4>3
    <3>2. CASE (r = p /\ i = j) /\ ~(u = p /\ k = j)
      <4>1. /\ old(u, k) \in DOMAIN D[u].entries /\ E[u].entries[k] = D[u].entries[old(u, k)]
            /\ <<u, old(u, k)>> \notin mv
        BY <2>1, <2>2, <3>2
      <4>2. x.obj \in Pairs /\ x.obj \in Below(D, mv, u)
        BY <1>8, <2>2, <3>2, <4>1 DEF Below
      <4> QED
        BY <4>2
    <3>3. CASE ~(r = p /\ i = j) /\ (u = p /\ k = j)
      <4>1. /\ old(r, i) \in DOMAIN D[r].entries /\ E[r].entries[i] = D[r].entries[old(r, i)]
            /\ <<r, old(r, i)>> \notin mv
        BY <2>1, <2>2, <3>3
      <4>2. x.obj \in Pairs /\ x.obj \in Below(D, mv, r)
        BY <1>8, <2>2, <3>3, <4>1 DEF Below
      <4> QED
        BY <4>2
    <3>4. CASE (r = p /\ i = j) /\ (u = p /\ k = j)
      BY <3>4
    <3> QED
      BY <3>1, <3>2, <3>3, <3>4
  <2> QED
    BY <1>2, <2>2 DEF NamedOnce
<1> QED
  BY <1>2, <1>11, <1>12, <1>13, <1>14 DEF Body

LEMMA ReplaceBody ==
  ASSUME NEW D, NEW mv, Body(D, mv), NEW p \in ListOf(D), NEW j \in DOMAIN D[p].entries,
         <<p, j>> \notin mv, NEW x \in EntryType,
         x.obj \in Pairs => /\ x.obj \in ListOf(D) /\ HeadIn(D, x.obj)
                            /\ \A r \in ListOf(D) : x.obj \notin Below(D, mv, r),
         NEW E, DiskType(E), EntriesOf(p, D, E), E[p].entries = ReplaceAt(D[p].entries, j, x)
  PROVE  /\ Body(E, mv) /\ ListOf(E) = ListOf(D)
         /\ Below(E, mv, p) = (Below(D, mv, p) \ {D[p].entries[j].obj}) \cup ({x.obj} \cap Pairs)
         /\ \A r \in ListOf(D) \ {p} : Below(E, mv, r) = Below(D, mv, r)
<1> DEFINE S == ListOf(D)
           es == D[p].entries
<1>1. DiskType(D) /\ Threaded(D) /\ Named(D) /\ S \subseteq Pairs
  BY ListClosed DEF Body
<1>2. ListOf(E) = S /\ Threaded(E) /\ \A o : HeadIn(D, o) => HeadIn(E, o)
  <2>1. \A r \in S : E[r].tail = D[r].tail /\ E[r].split = D[r].split
    BY DEF EntriesOf, ReadsAs
  <2> QED
    BY <1>1, <2>1, SameTails
<1>3. /\ DOMAIN E[p].entries = DOMAIN es /\ E[p].entries[j] = x
      /\ \A i \in DOMAIN es : i # j => E[p].entries[i] = es[i]
  <2>1. es \in Seq(EntryType)
    BY <1>1, DiskTyped
  <2>2. DOMAIN es = 1..Len(es) /\ j \in 1..Len(es) /\ E[p].entries = ReplaceAt(es, j, x)
    BY <2>1
  <2> HIDE DEF es
  <2>3. LET r == ReplaceAt(es, j, x) IN
        DOMAIN r = 1..Len(es) /\ r[j] = x /\ \A i \in 1..Len(es) : i # j => r[i] = es[i]
    BY <2>1, <2>2 DEF ReplaceAt
  <2> QED
    BY <2>2, <2>3
<1>4. \A r \in S \ {p} : E[r].entries = D[r].entries
  BY DEF EntriesOf, ReadsAs
<1>5. ASSUME NEW r \in S \ {p} PROVE Below(E, mv, r) = Below(D, mv, r)
  BY <1>4 DEF Below
<1>6. ASSUME NEW i \in DOMAIN es, i # j, <<p, i>> \notin mv, es[i].obj \in Pairs PROVE es[i].obj # es[j].obj
  BY <1>6 DEF Body, NamedOnce
<1>7. Below(E, mv, p) = (Below(D, mv, p) \ {es[j].obj}) \cup ({x.obj} \cap Pairs)
  <2>1. ASSUME NEW o \in Below(E, mv, p) PROVE o \in (Below(D, mv, p) \ {es[j].obj}) \cup ({x.obj} \cap Pairs)
    <3>1. o \in Pairs
      BY DEF Below
    <3>2. PICK i \in DOMAIN E[p].entries : <<p, i>> \notin mv /\ E[p].entries[i].obj = o
      BY DEF Below
    <3>3. CASE i = j
      BY <1>3, <3>1, <3>2, <3>3
    <3>4. CASE i # j
      <4>1. i \in DOMAIN es /\ es[i].obj = o
        BY <1>3, <3>2, <3>4
      <4>2. o # es[j].obj
        BY <1>6, <3>1, <3>2, <3>4, <4>1
      <4> QED
        BY <3>1, <3>2, <4>1, <4>2 DEF Below
    <3> QED
      BY <3>3, <3>4
  <2>2. ASSUME NEW o \in Below(D, mv, p), o # es[j].obj PROVE o \in Below(E, mv, p)
    <3>1. PICK i \in DOMAIN es : <<p, i>> \notin mv /\ es[i].obj = o
      BY DEF Below
    <3>2. o \in Pairs
      BY DEF Below
    <3>3. i \in DOMAIN E[p].entries /\ E[p].entries[i].obj = o
      BY <1>3, <2>2, <3>1
    <3> QED
      BY <3>1, <3>2, <3>3 DEF Below
  <2>3. ASSUME x.obj \in Pairs PROVE x.obj \in Below(E, mv, p)
    BY <1>3, <2>3 DEF Below
  <2> QED
    BY <2>1, <2>2, <2>3
<1> HIDE DEF es
<1>8. Named(E)
  <2>1. ASSUME NEW r \in S, NEW i \in DOMAIN E[r].entries, E[r].entries[i].obj \in Pairs
        PROVE  E[r].entries[i].obj \in S /\ HeadIn(D, E[r].entries[i].obj)
    <3>1. CASE r # p
      BY <1>1, <1>4, <2>1, <3>1 DEF Named
    <3>2. CASE r = p /\ i = j
      BY <1>3, <2>1, <3>2
    <3>3. CASE r = p /\ i # j
      BY <1>1, <1>3, <2>1, <3>3 DEF Named, es
    <3> QED
      BY <3>1, <3>2, <3>3
  <2> QED
    BY <1>2, <2>1 DEF Named
<1>9. NamedOnce(E, mv)
  <2>1. ASSUME NEW r \in S, NEW i \in DOMAIN E[r].entries, ~(r = p /\ i = j)
        PROVE  i \in DOMAIN D[r].entries /\ E[r].entries[i] = D[r].entries[i]
    BY <1>3, <1>4, <2>1 DEF es
  <2>2. ASSUME NEW r \in S, NEW u \in S, NEW i \in DOMAIN E[r].entries, NEW k \in DOMAIN E[u].entries,
               <<r, i>> \notin mv, <<u, k>> \notin mv,
               E[r].entries[i].obj = E[u].entries[k].obj, E[r].entries[i].obj \in Pairs
        PROVE  r = u /\ i = k
    <3>1. CASE ~(r = p /\ i = j) /\ ~(u = p /\ k = j)
      <4>1. i \in DOMAIN D[r].entries /\ E[r].entries[i] = D[r].entries[i]
        BY <2>1, <3>1
      <4>2. k \in DOMAIN D[u].entries /\ E[u].entries[k] = D[u].entries[k]
        BY <2>1, <3>1
      <4> QED
        BY <2>2, <4>1, <4>2 DEF Body, NamedOnce
    <3>2. CASE (r = p /\ i = j) /\ ~(u = p /\ k = j)
      <4>1. k \in DOMAIN D[u].entries /\ E[u].entries[k] = D[u].entries[k]
        BY <2>1, <3>2
      <4>2. x.obj \in Pairs /\ x.obj \in Below(D, mv, u)
        BY <1>3, <2>2, <3>2, <4>1 DEF Below
      <4> QED
        BY <4>2
    <3>3. CASE ~(r = p /\ i = j) /\ (u = p /\ k = j)
      <4>1. i \in DOMAIN D[r].entries /\ E[r].entries[i] = D[r].entries[i]
        BY <2>1, <3>3
      <4>2. x.obj \in Pairs /\ x.obj \in Below(D, mv, r)
        BY <1>3, <2>2, <3>3, <4>1 DEF Below
      <4> QED
        BY <4>2
    <3>4. CASE (r = p /\ i = j) /\ (u = p /\ k = j)
      BY <3>4
    <3> QED
      BY <3>1, <3>2, <3>3, <3>4
  <2> QED
    BY <1>2, <2>2 DEF NamedOnce
<1> QED
  BY <1>2, <1>5, <1>7, <1>8, <1>9 DEF Body, es

\* An entry is hidden.
LEMMA HideBody ==
  ASSUME NEW D, Body(D, {}), NEW p \in ListOf(D), NEW i \in DOMAIN D[p].entries
  PROVE  /\ Body(D, {<<p, i>>})
         /\ Below(D, {<<p, i>>}, p) = Below(D, {}, p) \ {D[p].entries[i].obj}
         /\ \A r \in ListOf(D) \ {p} : Below(D, {<<p, i>>}, r) = Below(D, {}, r)
<1> DEFINE o == D[p].entries[i].obj
<1>1. Body(D, {<<p, i>>})
  BY DEF Body, NamedOnce
<1>2. ASSUME NEW j \in DOMAIN D[p].entries, j # i, D[p].entries[j].obj \in Pairs PROVE D[p].entries[j].obj # o
  BY <1>2 DEF Body, NamedOnce
<1>3. Below(D, {<<p, i>>}, p) = Below(D, {}, p) \ {o}
  <2>1. ASSUME NEW u \in Below(D, {<<p, i>>}, p) PROVE u \in Below(D, {}, p) \ {o}
    <3>1. u \in Pairs
      BY DEF Below
    <3>2. PICK j \in DOMAIN D[p].entries : <<p, j>> # <<p, i>> /\ D[p].entries[j].obj = u
      BY DEF Below
    <3> QED
      BY <1>2, <3>1, <3>2 DEF Below
  <2>2. ASSUME NEW u \in Below(D, {}, p), u # o PROVE u \in Below(D, {<<p, i>>}, p)
    BY <2>2 DEF Below
  <2> QED
    BY <2>1, <2>2
<1>4. \A r \in ListOf(D) \ {p} : Below(D, {<<p, i>>}, r) = Below(D, {}, r)
  BY DEF Below
<1> QED
  BY <1>1, <1>3, <1>4

\* A hidden entry is deleted.
LEMMA RemoveBody ==
  ASSUME NEW D, NEW p \in ListOf(D), NEW i \in DOMAIN D[p].entries, Body(D, {<<p, i>>}),
         NEW E, DiskType(E), EntriesOf(p, D, E), E[p].entries = RemoveAt(D[p].entries, i)
  PROVE  /\ Body(E, {}) /\ ListOf(E) = ListOf(D)
         /\ \A r \in ListOf(D) : Below(E, {}, r) = Below(D, {<<p, i>>}, r)
<1> DEFINE S == ListOf(D)
           es == D[p].entries
           mv == {<<p, i>>}
           src(k) == IF i <= k THEN k + 1 ELSE k
<1>1. DiskType(D) /\ Threaded(D) /\ Named(D) /\ S \subseteq Pairs
  BY ListClosed DEF Body
<1>2. ListOf(E) = S /\ Threaded(E) /\ \A o : HeadIn(D, o) => HeadIn(E, o)
  <2>1. \A r \in S : E[r].tail = D[r].tail /\ E[r].split = D[r].split
    BY DEF EntriesOf, ReadsAs
  <2> QED
    BY <1>1, <2>1, SameTails
<1>3. /\ es \in Seq(EntryType) /\ Len(es) \in Nat /\ DOMAIN es = 1..Len(es) /\ i \in 1..Len(es)
      /\ DOMAIN E[p].entries = 1..(Len(es) - 1)
      /\ \A k \in 1..(Len(es) - 1) : E[p].entries[k] = es[src(k)]
  <2>1. es \in Seq(EntryType)
    BY <1>1, DiskTyped
  <2>2. Len(es) \in Nat /\ DOMAIN es = 1..Len(es) /\ i \in 1..Len(es)
    BY <2>1
  <2> QED
    BY <2>1, <2>2, RemoveIs
<1>4. \A r \in S \ {p} : E[r].entries = D[r].entries
  BY DEF EntriesOf, ReadsAs
<1> DEFINE n == Len(es)
<1>5. ASSUME NEW k \in DOMAIN E[p].entries
      PROVE  src(k) \in DOMAIN es /\ src(k) # i /\ E[p].entries[k] = es[src(k)]
  <2>1. n \in Nat /\ i \in 1..n /\ k \in 1..(n - 1) /\ DOMAIN es = 1..n
    BY <1>3
  <2>2. E[p].entries[k] = es[src(k)]
    BY <1>3
  <2> HIDE DEF n, es
  <2> QED
    BY <2>1, <2>2
<1>6. ASSUME NEW k \in DOMAIN es, k # i
      PROVE  \E m \in DOMAIN E[p].entries : src(m) = k
  <2>1. n \in Nat /\ i \in 1..n /\ k \in 1..n /\ DOMAIN E[p].entries = 1..(n - 1)
    BY <1>3
  <2> HIDE DEF n, es
  <2>2. CASE k < i
    <3>1. k \in 1..(n - 1) /\ src(k) = k
      BY <2>1, <2>2
    <3> QED
      BY <2>1, <3>1
  <2>3. CASE ~(k < i)
    <3>1. k - 1 \in 1..(n - 1) /\ src(k - 1) = k
      BY <1>6, <2>1, <2>3
    <3> QED
      BY <2>1, <3>1
  <2> QED
    BY <2>2, <2>3
<1>7. ASSUME NEW k \in DOMAIN E[p].entries, NEW m \in DOMAIN E[p].entries, src(k) = src(m) PROVE k = m
  <2>1. n \in Nat /\ i \in 1..n /\ k \in 1..(n - 1) /\ m \in 1..(n - 1)
    BY <1>3
  <2> HIDE DEF n, es
  <2> QED
    BY <1>7, <2>1
<1> HIDE DEF es, src
<1>8. ASSUME NEW r \in S PROVE Below(E, {}, r) = Below(D, mv, r)
  <2>1. CASE r # p
    <3>1. \A k : <<r, k>> # <<p, i>>
      BY <2>1
    <3> QED
      BY <1>4, <2>1, <3>1 DEF Below
  <2>2. CASE r = p
    <3>1. ASSUME NEW o \in Below(E, {}, p) PROVE o \in Below(D, mv, p)
      <4>1. o \in Pairs
        BY DEF Below
      <4>2. PICK k \in DOMAIN E[p].entries : E[p].entries[k].obj = o
        BY DEF Below
      <4>3. src(k) \in DOMAIN es /\ src(k) # i /\ es[src(k)].obj = o
        BY <1>5, <4>2
      <4> QED
        BY <4>1, <4>3 DEF Below, es
    <3>2. ASSUME NEW o \in Below(D, mv, p) PROVE o \in Below(E, {}, p)
      <4>1. o \in Pairs
        BY DEF Below
      <4>2. PICK k \in DOMAIN es : <<p, k>> \notin mv /\ es[k].obj = o
        BY DEF Below, es
      <4>3. PICK m \in DOMAIN E[p].entries : src(m) = k
        BY <1>6, <4>2
      <4>4. E[p].entries[m].obj = o
        BY <1>5, <4>2, <4>3
      <4> QED
        BY <4>1, <4>4 DEF Below
    <3>3. Below(E, {}, p) = Below(D, mv, p)
      BY <3>1, <3>2
    <3> QED
      BY <2>2, <3>3
  <2> QED
    BY <2>1, <2>2
<1> DEFINE old(r, k) == IF r = p THEN src(k) ELSE k
<1>9. ASSUME NEW r \in S, NEW k \in DOMAIN E[r].entries
      PROVE  /\ old(r, k) \in DOMAIN D[r].entries /\ E[r].entries[k] = D[r].entries[old(r, k)]
             /\ <<r, old(r, k)>> # <<p, i>>
  <2>1. CASE r # p
    BY <1>4, <2>1
  <2>2. CASE r = p
    BY <1>5, <2>2 DEF es
  <2> QED
    BY <2>1, <2>2
<1>10. ASSUME NEW r \in S, NEW k \in DOMAIN E[r].entries, NEW m \in DOMAIN E[r].entries, old(r, k) = old(r, m)
       PROVE  k = m
  BY <1>7, <1>10
<1> HIDE DEF old
<1>11. Named(E)
  BY <1>1, <1>2, <1>9 DEF Named
<1>12. NamedOnce(E, {})
  <2>1. ASSUME NEW r \in S, NEW u \in S, NEW k \in DOMAIN E[r].entries, NEW m \in DOMAIN E[u].entries,
               E[r].entries[k].obj = E[u].entries[m].obj, E[r].entries[k].obj \in Pairs
        PROVE  r = u /\ k = m
    <3>1. /\ old(r, k) \in DOMAIN D[r].entries /\ E[r].entries[k] = D[r].entries[old(r, k)]
          /\ <<r, old(r, k)>> \notin mv
      BY <1>9
    <3>2. /\ old(u, m) \in DOMAIN D[u].entries /\ E[u].entries[m] = D[u].entries[old(u, m)]
          /\ <<u, old(u, m)>> \notin mv
      BY <1>9
    <3>3. r = u /\ old(r, k) = old(u, m)
      BY <2>1, <3>1, <3>2 DEF Body, NamedOnce
    <3> QED
      BY <1>10, <3>3
  <2> QED
    BY <1>2, <2>1 DEF NamedOnce
<1> QED
  BY <1>2, <1>8, <1>11, <1>12 DEF Body

LEMMA ShapeIs ==
  ASSUME NEW D, NEW mv
  PROVE  Shape(D, mv) <=> /\ Body(D, mv) /\ mv \in SUBSET (Pairs \X (Nat \ {0}))
                          /\ OneMove(D, mv) /\ OrphansEmpty(D, mv)
BY DEF Shape, Body

LEMMA EntryPlace ==
  ASSUME NEW D, DiskType(D), NEW p \in Pairs, NEW i \in DOMAIN D[p].entries
  PROVE  <<p, i>> \in Pairs \X (Nat \ {0}) /\ i \in 1..Len(D[p].entries) /\ D[p].entries # <<>>
<1>1. D[p].entries \in Seq(EntryType)
  BY DiskTyped
<1>2. i \in Nat \ {0} /\ i \in 1..Len(D[p].entries)
  BY <1>1
<1>3. DOMAIN << >> = {}
  OBVIOUS
<1> QED
  BY <1>2, <1>3

\* When names and hard tails stay, so do directories.
LEMMA SameOwned ==
  ASSUME NEW D, NEW mv, Named(D), DiskType(D), NEW E, NEW mw, DiskType(E),
         \A r \in ListOf(D) : /\ Below(E, mw, r) = Below(D, mv, r)
                              /\ E[r].tail = D[r].tail /\ E[r].split = D[r].split
  PROVE  Owned(E, mw) = Owned(D, mv)
<1>1. Owned(D, mv) \subseteq ListOf(D)
  BY OwnedListed
<1>2. Owned(E, mw) \subseteq Owned(D, mv)
  <2>1. \A q \in Owned(D, mv) : Below(E, mw, q) \subseteq Owned(D, mv)
    BY <1>1, OwnedIs
  <2>2. \A q \in Owned(D, mv) : E[q].split /\ E[q].tail # NoPair => E[q].tail \in Owned(D, mv)
    BY <1>1, OwnedIs
  <2> QED
    BY <2>1, <2>2, OwnedIs, OwnedWithin
<1>3. Owned(D, mv) \subseteq Owned(E, mw)
  <2> DEFINE O == Owned(E, mw)
  <2>1. O \subseteq ListOf(D) /\ O \subseteq Pairs /\ Root \in O
    BY <1>1, <1>2, OwnedIs
  <2>2. \A q \in O : Below(D, mv, q) \subseteq O
    BY <2>1, OwnedIs
  <2>3. \A q \in O : D[q].split /\ D[q].tail # NoPair => D[q].tail \in O
    BY <2>1, OwnedIs
  <2> QED
    BY <2>1, <2>2, <2>3, OwnedWithin
<1> QED
  BY <1>2, <1>3

\* The copied entry is deleted.
LEMMA Deleted ==
  ASSUME NEW D, NEW p \in ListOf(D), NEW i \in DOMAIN D[p].entries, Shape(D, {<<p, i>>}),
         NEW E, DiskType(E), EntriesOf(p, D, E), E[p].entries = RemoveAt(D[p].entries, i)
  PROVE  /\ Shape(E, {}) /\ ListOf(E) = ListOf(D)
         /\ OrphansOf(E, {}) = OrphansOf(D, {<<p, i>>})
<1> DEFINE mv == {<<p, i>>}
<1>1. Body(D, mv) /\ DiskType(D) /\ Named(D) /\ OrphansEmpty(D, mv) /\ ListOf(D) \subseteq Pairs
  BY ListClosed DEF Shape, Body
<1>2. /\ Body(E, {}) /\ ListOf(E) = ListOf(D)
      /\ \A r \in ListOf(D) : Below(E, {}, r) = Below(D, mv, r)
  BY <1>1, RemoveBody
<1>3. \A r \in ListOf(D) : E[r].tail = D[r].tail /\ E[r].split = D[r].split
  BY DEF EntriesOf, ReadsAs
<1>4. Owned(E, {}) = Owned(D, mv)
  <2> HIDE DEF mv
  <2>1. \A r \in ListOf(D) : /\ Below(E, {}, r) = Below(D, mv, r)
                             /\ E[r].tail = D[r].tail /\ E[r].split = D[r].split
    BY <1>2, <1>3
  <2> QED
    BY <1>1, <2>1, SameOwned
<1>5. OrphansOf(E, {}) = OrphansOf(D, mv)
  BY <1>2, <1>4 DEF OrphansOf
<1>6. D[p].entries # <<>>
  BY <1>1, EntryPlace
<1>7. OrphansEmpty(E, {})
  <2>1. ASSUME NEW r \in OrphansOf(D, mv) PROVE EmptyIn(E, r)
    <3>1. r # p /\ r \in ListOf(D) /\ EmptyIn(D, r)
      BY <1>1, <1>6 DEF OrphansEmpty, EmptyIn, OrphansOf
    <3> QED
      BY <3>1 DEF EntriesOf, ReadsAs, EmptyIn
  <2> QED
    BY <1>5, <2>1 DEF OrphansEmpty
<1>8. OneMove(E, {})
  BY DEF OneMove
<1> QED
  BY <1>2, <1>5, <1>7, <1>8, ShapeIs

\* The name of an empty directory, or of a file, is hidden.
LEMMA Hidden ==
  ASSUME NEW D, Shape(D, {}), NEW p \in ListOf(D), NEW i \in DOMAIN D[p].entries,
         D[p].entries[i].obj \in Pairs => EmptyIn(D, D[p].entries[i].obj)
  PROVE  /\ Shape(D, {<<p, i>>})
         /\ OrphansOf(D, {<<p, i>>}) = OrphansOf(D, {}) \cup ({D[p].entries[i].obj} \cap Pairs)
<1> DEFINE mv == {<<p, i>>}
           o == D[p].entries[i].obj
           S == ListOf(D)
           O == Owned(D, {})
           P == Owned(D, mv)
<1>1. Body(D, {}) /\ DiskType(D) /\ Named(D) /\ OrphansEmpty(D, {}) /\ S \subseteq Pairs
  BY ListClosed DEF Shape, Body
<1>2. /\ Body(D, mv) /\ Below(D, mv, p) = Below(D, {}, p) \ {o}
      /\ \A r \in S \ {p} : Below(D, mv, r) = Below(D, {}, r)
  BY <1>1, HideBody
<1>3. <<p, i>> \in Pairs \X (Nat \ {0}) /\ D[p].entries # <<>>
  BY <1>1, EntryPlace
<1>4. o \in Pairs => o \in Below(D, {}, p)
  BY DEF Below
<1>5. o \in Pairs => /\ o # Root /\ o \in S /\ o \in O
                     /\ \A q \in S : D[q].tail = o => ~D[q].split
                     /\ \A r \in S : o \in Below(D, {}, r) => r = p
  BY <1>4, BelowHeads, BelowOnce DEF HeadIn
<1>6. O \subseteq S /\ Root \in O
  BY <1>1, OwnedListed, OwnedIs
<1>7. P \subseteq O \ ({o} \cap Pairs)
  <2> DEFINE U == O \ ({o} \cap Pairs)
  <2>1. \A r \in U : D[r].split /\ D[r].tail # NoPair => D[r].tail \in U
    BY <1>1, <1>5, <1>6, OwnedIs
  <2>2. ASSUME NEW r \in U PROVE Below(D, mv, r) \subseteq U
    <3>1. Below(D, {}, r) \subseteq O
      BY <1>1, OwnedIs
    <3>2. CASE r = p
      BY <1>2, <3>1, <3>2
    <3>3. CASE r # p
      BY <1>2, <1>5, <1>6, <3>1, <3>3
    <3> QED
      BY <3>2, <3>3
  <2>3. U \in SUBSET Pairs /\ Root \in U
    BY <1>1, <1>5, <1>6
  <2> HIDE DEF U
  <2>4. P \subseteq U
    BY <2>1, <2>2, <2>3, OwnedWithin
  <2> QED
    BY <2>4 DEF U
<1>8. O \subseteq P \cup ({o} \cap Pairs)
  <2> DEFINE U == P \cup ({o} \cap Pairs)
  <2>1. \A r \in U : D[r].split /\ D[r].tail # NoPair => D[r].tail \in U
    BY <1>1, OwnedIs DEF EmptyIn
  <2>2. ASSUME NEW r \in U PROVE Below(D, {}, r) \subseteq U
    <3>1. CASE r \in P
      <4>1. Below(D, mv, r) \subseteq P /\ r \in S
        BY <1>1, <1>6, <1>7, <3>1, OwnedIs
      <4>2. Below(D, {}, r) \subseteq Below(D, mv, r) \cup ({o} \cap Pairs)
        BY <1>2, <4>1 DEF Below
      <4> QED
        BY <4>1, <4>2
    <3>2. CASE r = o /\ o \in Pairs
      <4>1. D[r].entries = <<>>
        BY <3>2 DEF EmptyIn
      <4>2. DOMAIN << >> = {}
        OBVIOUS
      <4> QED
        BY <4>1, <4>2 DEF Below
    <3> QED
      BY <3>1, <3>2
  <2>3. U \in SUBSET Pairs /\ Root \in U
    BY <1>1, OwnedIs
  <2> HIDE DEF U
  <2>4. O \subseteq U
    BY <2>1, <2>2, <2>3, OwnedWithin
  <2> QED
    BY <2>4 DEF U
<1>9. OrphansOf(D, mv) = OrphansOf(D, {}) \cup ({o} \cap Pairs)
  BY <1>5, <1>7, <1>8 DEF OrphansOf
<1>10. OrphansEmpty(D, mv)
  BY <1>1, <1>9 DEF OrphansEmpty
<1>11. OneMove(D, mv)
  BY DEF OneMove
<1> QED
  BY <1>2, <1>3, <1>9, <1>10, <1>11, ShapeIs

\* A file is created, or the pair of a new directory is named.
LEMMA Inserted ==
  ASSUME NEW D, Shape(D, {}), NEW p \in Owned(D, {}), NEW j \in 1..(Len(D[p].entries) + 1),
         NEW x \in EntryType, x.obj \in Pairs => x.obj \in OrphansOf(D, {}),
         NEW E, DiskType(E), EntriesOf(p, D, E), E[p].entries = InsertAt(D[p].entries, j, x)
  PROVE  /\ Shape(E, {}) /\ ListOf(E) = ListOf(D)
         /\ OrphansOf(E, {}) = OrphansOf(D, {}) \ {x.obj}
<1> DEFINE o == x.obj
           S == ListOf(D)
           O == Owned(D, {})
           P == Owned(E, {})
<1>1. Body(D, {}) /\ DiskType(D) /\ Named(D) /\ OrphansEmpty(D, {}) /\ S \subseteq Pairs
  BY ListClosed DEF Shape, Body
<1>2. O \subseteq S /\ Root \in O /\ p \in S
  BY <1>1, OwnedListed, OwnedIs
<1>3. o \in Pairs => /\ o \in S /\ HeadIn(D, o) /\ \A r \in S : o \notin Below(D, {}, r)
  <2>1. SUFFICES ASSUME o \in Pairs PROVE o \in S /\ HeadIn(D, o) /\ \A r \in S : o \notin Below(D, {}, r)
    OBVIOUS
  <2>2. o \in S /\ o \notin O /\ o # NoPair /\ o # Root
    BY <1>2, <2>1, RootTyped DEF OrphansOf
  <2>3. ASSUME NEW r \in S, D[r].tail = o PROVE ~D[r].split
    <3>1. D[r].split => r \in O
      BY OrphanAlone
    <3> QED
      BY <1>1, <2>2, <2>3, <3>1, OwnedIs
  <2>4. \A r \in S : o \notin Below(D, {}, r)
    BY <2>2, BelowHeads
  <2> QED
    BY <2>2, <2>3, <2>4 DEF HeadIn
<1>4. /\ Body(E, {}) /\ ListOf(E) = S
      /\ Below(E, {}, p) = Below(D, {}, p) \cup ({o} \cap Pairs)
      /\ \A r \in S \ {p} : Below(E, {}, r) = Below(D, {}, r)
  <2>1. <<p, j>> \notin {} /\ \A r \in S, i \in Nat \ {0} : <<r, Shifted(p, j, r, i)>> \in {} <=> <<r, i>> \in {}
    OBVIOUS
  <2> DEFINE mv == {}
  <2> HIDE DEF mv
  <2>2. /\ Body(D, mv) /\ <<p, j>> \notin mv
        /\ \A r \in S, i \in Nat \ {0} : <<r, Shifted(p, j, r, i)>> \in mv <=> <<r, i>> \in mv
        /\ x.obj \in Pairs => /\ x.obj \in S /\ HeadIn(D, x.obj)
                             /\ \A r \in S : x.obj \notin Below(D, mv, r)
    BY <1>1, <1>3, <2>1 DEF mv
  <2>3. /\ Body(E, mv) /\ ListOf(E) = S
        /\ Below(E, mv, p) = Below(D, mv, p) \cup ({x.obj} \cap Pairs)
        /\ \A r \in S \ {p} : Below(E, mv, r) = Below(D, mv, r)
    BY <1>2, <2>2, PutBody
  <2> QED
    BY <2>3 DEF mv
<1>5. \A r \in S : E[r].tail = D[r].tail /\ E[r].split = D[r].split
  BY DEF EntriesOf, ReadsAs
<1>6. o \in Pairs => EmptyIn(D, o) /\ o # p /\ o \in S
  BY <1>1 DEF OrphansEmpty, OrphansOf
<1>7. o \in Pairs => EmptyIn(E, o)
  BY <1>6 DEF EntriesOf, ReadsAs, EmptyIn
<1>8. P \subseteq O \cup ({o} \cap Pairs)
  <2> DEFINE U == O \cup ({o} \cap Pairs)
  <2>1. \A r \in U : E[r].split /\ E[r].tail # NoPair => E[r].tail \in U
    BY <1>1, <1>2, <1>5, <1>7, OwnedIs DEF EmptyIn
  <2>2. ASSUME NEW r \in U PROVE Below(E, {}, r) \subseteq U
    <3>1. CASE r \in O
      <4>1. Below(D, {}, r) \subseteq O /\ r \in S
        BY <1>1, <1>2, <3>1, OwnedIs
      <4> QED
        BY <1>4, <4>1
    <3>2. CASE r = o /\ o \in Pairs
      <4>1. E[r].entries = <<>>
        BY <1>7, <3>2 DEF EmptyIn
      <4>2. DOMAIN << >> = {}
        OBVIOUS
      <4> QED
        BY <4>1, <4>2 DEF Below
    <3> QED
      BY <3>1, <3>2
  <2>3. U \in SUBSET Pairs /\ Root \in U
    BY <1>1, <1>2
  <2> HIDE DEF U
  <2>4. P \subseteq U
    BY <2>1, <2>2, <2>3, OwnedWithin
  <2> QED
    BY <2>4 DEF U
<1>9. O \subseteq P
  <2> DEFINE U == P \cap S
  <2>1. \A r \in U : D[r].split /\ D[r].tail # NoPair => D[r].tail \in U
    BY <1>1, <1>5, ListClosed, OwnedIs
  <2>2. ASSUME NEW r \in U PROVE Below(D, {}, r) \subseteq U
    <3>1. Below(D, {}, r) \subseteq S
      BY <1>1 DEF Below, Named
    <3>2. Below(D, {}, r) \subseteq Below(E, {}, r)
      BY <1>4
    <3> QED
      BY <3>1, <3>2, OwnedIs
  <2>3. U \in SUBSET Pairs /\ Root \in U
    BY <1>1, <1>2, OwnedIs
  <2> HIDE DEF U
  <2>4. O \subseteq U
    BY <2>1, <2>2, <2>3, OwnedWithin
  <2> QED
    BY <2>4 DEF U
<1>10. o \in Pairs => o \in P
  <2>1. SUFFICES ASSUME o \in Pairs PROVE o \in P
    OBVIOUS
  <2>2. p \in P /\ o \in Below(E, {}, p)
    BY <1>4, <1>9, <2>1
  <2> QED
    BY <2>2, OwnedIs
<1>11. OrphansOf(E, {}) = OrphansOf(D, {}) \ {o}
  BY <1>1, <1>4, <1>8, <1>9, <1>10 DEF OrphansOf
<1>12. OrphansEmpty(E, {})
  <2>1. ASSUME NEW r \in OrphansOf(D, {}) PROVE EmptyIn(E, r)
    <3>1. r # p /\ r \in S /\ EmptyIn(D, r)
      BY <1>1 DEF OrphansEmpty, OrphansOf
    <3> QED
      BY <3>1 DEF EntriesOf, ReadsAs, EmptyIn
  <2> QED
    BY <1>11, <2>1 DEF OrphansEmpty
<1>13. OneMove(E, {})
  BY DEF OneMove
<1> QED
  BY <1>4, <1>11, <1>12, <1>13, ShapeIs

HidesOnly(D, p, i) ==
  /\ Body(D, {<<p, i>>})
  /\ Below(D, {<<p, i>>}, p) = Below(D, {}, p) \ {D[p].entries[i].obj}
  /\ \A r \in ListOf(D) \ {p} : Below(D, {<<p, i>>}, r) = Below(D, {}, r)

LEMMA HideOnly ==
  ASSUME NEW D, Body(D, {}), NEW p \in ListOf(D), NEW i \in DOMAIN D[p].entries
  PROVE  HidesOnly(D, p, i)
BY HideBody DEF HidesOnly

\* Entry i of p is to be found at place j of s as well, instead of another's or before it.
Copies(D, p, i, s, j, x, rep, E, at, prev) ==
  /\ p \in ListOf(D) /\ i \in DOMAIN D[p].entries
  /\ s \in ListOf(D) /\ j \in 1..(Len(D[s].entries) + 1)
  /\ x \in EntryType /\ x.obj = D[p].entries[i].obj
  /\ x.obj \in Pairs => s \notin OwnedFrom(D, {}, x.obj)
  /\ rep \in BOOLEAN
  /\ rep => /\ j \in DOMAIN D[s].entries /\ <<s, j>> # <<p, i>>
            /\ D[s].entries[j].obj \in Pairs => EmptyIn(D, D[s].entries[j].obj)
  /\ DiskType(E) /\ EntriesOf(s, D, E)
  /\ E[s].entries = IF rep THEN ReplaceAt(D[s].entries, j, x) ELSE InsertAt(D[s].entries, j, x)
  /\ at = IF rep THEN i ELSE Shifted(s, j, p, i)
  /\ prev = IF rep THEN {D[s].entries[j].obj} \cap Pairs ELSE {}

Copied(D, p, E, at, prev) ==
  /\ Shape(E, {<<p, at>>}) /\ ListOf(E) = ListOf(D)
  /\ OrphansOf(E, {<<p, at>>}) = prev
  /\ at \in DOMAIN E[p].entries

\* An entry is copied to another place, where it may take that of a file or
\* an empty directory, and hidden where it was: the tree keeps what it held.
LEMMA Moved ==
  ASSUME NEW D, Shape(D, {}), OrphansOf(D, {}) = {}, NEW p, NEW i, NEW s, NEW j, NEW x, NEW rep,
         NEW E, NEW at, NEW prev, Copies(D, p, i, s, j, x, rep, E, at, prev)
  PROVE  Copied(D, p, E, at, prev)
<1> SUFFICES
      ASSUME p \in ListOf(D), i \in DOMAIN D[p].entries,
             s \in ListOf(D), j \in 1..(Len(D[s].entries) + 1),
             x \in EntryType, x.obj = D[p].entries[i].obj,
             x.obj \in Pairs => s \notin OwnedFrom(D, {}, x.obj),
             rep \in BOOLEAN,
             rep => /\ j \in DOMAIN D[s].entries /\ <<s, j>> # <<p, i>>
                    /\ D[s].entries[j].obj \in Pairs => EmptyIn(D, D[s].entries[j].obj),
             DiskType(E), EntriesOf(s, D, E),
             E[s].entries = IF rep THEN ReplaceAt(D[s].entries, j, x) ELSE InsertAt(D[s].entries, j, x),
             at = IF rep THEN i ELSE Shifted(s, j, p, i),
             prev = IF rep THEN {D[s].entries[j].obj} \cap Pairs ELSE {}
      PROVE  /\ Shape(E, {<<p, at>>}) /\ ListOf(E) = ListOf(D)
             /\ OrphansOf(E, {<<p, at>>}) = prev
             /\ at \in DOMAIN E[p].entries
  BY DEF Copies, Copied
<1> DEFINE S == ListOf(D)
           o == x.obj
           mv == {<<p, i>>}
           mw == {<<p, at>>}
           P == Owned(E, mw)
<1>1. /\ Body(D, {}) /\ DiskType(D) /\ Named(D) /\ S \subseteq Pairs /\ Root \in S
      /\ S = Owned(D, {}) /\ s \in Pairs /\ p \in Pairs
  <2>1. Body(D, {}) /\ DiskType(D) /\ Named(D) /\ S \subseteq Pairs /\ Root \in S
    BY ListClosed DEF Shape, Body
  <2>2. S = Owned(D, {})
    BY <2>1, OwnedListed DEF OrphansOf
  <2> QED
    BY <2>1, <2>2
<1>2. /\ Body(D, mv) /\ Below(D, mv, p) = Below(D, {}, p) \ {o}
      /\ \A r \in S \ {p} : Below(D, mv, r) = Below(D, {}, r)
  <2>1. HidesOnly(D, p, i)
    BY <1>1, HideOnly
  <2>2. /\ Body(D, mv) /\ Below(D, mv, p) = Below(D, {}, p) \ {D[p].entries[i].obj}
        /\ \A r \in S \ {p} : Below(D, mv, r) = Below(D, {}, r)
    BY <2>1, Zenon DEF HidesOnly
  <2> HIDE DEF mv
  <2> QED
    BY <2>2
<1>3. o \in Pairs => /\ o \in S /\ HeadIn(D, o) /\ o \in Below(D, {}, p)
                     /\ \A r \in S : o \in Below(D, {}, r) => r = p
  <2>1. o \in Pairs => o \in Below(D, {}, p)
    BY DEF Below
  <2> QED
    BY <2>1, BelowHeads, BelowOnce
<1>4. o \in Pairs => \A r \in S : o \notin Below(D, mv, r)
  BY <1>2, <1>3
<1>5. /\ D[p].entries \in Seq(EntryType) /\ D[s].entries \in Seq(EntryType)
      /\ i \in 1..Len(D[p].entries) /\ i \in Nat \ {0} /\ j \in Nat \ {0}
      /\ Len(D[p].entries) \in Nat /\ Len(D[s].entries) \in Nat
  <2>1. D[p].entries \in Seq(EntryType) /\ D[s].entries \in Seq(EntryType)
    BY <1>1, DiskTyped
  <2> QED
    BY <1>1, <2>1, EntryPlace
<1>6. /\ \A r \in S \ {s} : E[r].entries = D[r].entries
      /\ \A r \in S : E[r].tail = D[r].tail /\ E[r].split = D[r].split
  BY DEF EntriesOf, ReadsAs
<1>7. at \in DOMAIN E[p].entries /\ at \in Nat \ {0}
  <2>1. CASE p # s \/ rep
    <3>1. at = i
      BY <2>1 DEF Shifted
    <3>2. DOMAIN E[p].entries = DOMAIN D[p].entries
      <4>1. CASE p # s
        BY <1>6, <4>1
      <4>2. CASE p = s
        BY <1>5, <2>1, <4>2 DEF ReplaceAt
      <4> QED
        BY <4>1, <4>2
    <3> QED
      BY <1>5, <3>1, <3>2
  <2>2. CASE p = s /\ ~rep
    <3>1. at = IF j <= i THEN i + 1 ELSE i
      BY <2>2 DEF Shifted
    <3>2. DOMAIN E[p].entries = 1..(Len(D[p].entries) + 1)
      BY <1>5, <2>2, InsertIs
    <3> QED
      BY <1>5, <3>1, <3>2
  <2> QED
    BY <2>1, <2>2
<1>8. prev \subseteq Pairs /\ prev \subseteq Below(D, {}, s) /\ o \notin prev
      /\ \A u \in prev : EmptyIn(D, u)
  <2>1. SUFFICES ASSUME rep, NEW u, u = D[s].entries[j].obj, u \in Pairs
                 PROVE  u \in Below(D, {}, s) /\ o # u /\ EmptyIn(D, u)
    OBVIOUS
  <2>2. u \in Below(D, {}, s) /\ EmptyIn(D, u)
    BY <2>1 DEF Below
  <2>3. o # u
    BY <2>1 DEF Shape, NamedOnce
  <2> QED
    BY <2>2, <2>3
<1>9. \A u \in prev : /\ u # Root /\ u # s /\ u \in S
                      /\ \A q \in S : D[q].tail = u => ~D[q].split
                      /\ \A r \in S : u \in Below(D, {}, r) => r = s
  <2>1. SUFFICES ASSUME NEW u \in prev
                 PROVE  /\ u # Root /\ u # s /\ u \in S
                        /\ \A q \in S : D[q].tail = u => ~D[q].split
                        /\ \A r \in S : u \in Below(D, {}, r) => r = s
    BY <2>1
  <2>2. u \in S /\ HeadIn(D, u) /\ \A r \in S : u \in Below(D, {}, r) => r = s
    BY <1>8, BelowHeads, BelowOnce
  <2>3. u # s
    <3>1. rep /\ j \in DOMAIN D[s].entries
      OBVIOUS
    <3>2. D[s].entries # <<>>
      BY <1>1, <3>1, EntryPlace
    <3> QED
      BY <1>8, <3>2 DEF EmptyIn
  <2> QED
    BY <2>2, <2>3 DEF HeadIn
<1>10. /\ Body(E, mw) /\ ListOf(E) = S
       /\ Below(E, mw, s) = (Below(D, mv, s) \ prev) \cup ({o} \cap Pairs)
       /\ \A r \in S \ {s} : Below(E, mw, r) = Below(D, mv, r)
  <2>1. CASE rep
    <3>1. mw = mv /\ <<s, j>> \notin mv /\ j \in DOMAIN D[s].entries
      BY <2>1
    <3> HIDE DEF mv, mw
    <3>2. x.obj \in Pairs => /\ x.obj \in S /\ HeadIn(D, x.obj)
                             /\ \A r \in S : x.obj \notin Below(D, mv, r)
      BY <1>3, <1>4
    <3>3. E[s].entries = ReplaceAt(D[s].entries, j, x)
      BY <2>1
    <3>4. /\ Body(E, mv) /\ ListOf(E) = S
          /\ Below(E, mv, s) = (Below(D, mv, s) \ {D[s].entries[j].obj}) \cup ({o} \cap Pairs)
          /\ \A r \in S \ {s} : Below(E, mv, r) = Below(D, mv, r)
      BY <1>2, <3>1, <3>2, <3>3, ReplaceBody
    <3>5. Below(D, mv, s) \subseteq Pairs
      BY DEF Below
    <3>6. Below(D, mv, s) \ {D[s].entries[j].obj} = Below(D, mv, s) \ prev
      BY <2>1, <3>5
    <3> QED
      BY <3>1, <3>4, <3>6
  <2>2. CASE ~rep
    <3>1. <<s, j>> \notin mw
      <4>1. SUFFICES ASSUME p = s, at = j PROVE FALSE
        OBVIOUS
      <4>2. at = IF j <= i THEN i + 1 ELSE i
        BY <2>2, <4>1 DEF Shifted
      <4> QED
        BY <1>5, <4>1, <4>2
    <3>2. ASSUME NEW r \in S, NEW k \in Nat \ {0}
          PROVE  <<r, Shifted(s, j, r, k)>> \in mw <=> <<r, k>> \in mv
      <4>1. CASE r # p
        BY <4>1
      <4>2. CASE r = p /\ r # s
        BY <2>2, <4>2 DEF Shifted
      <4>3. CASE r = p /\ r = s
        <5>1. at = (IF j <= i THEN i + 1 ELSE i) /\ Shifted(s, j, r, k) = IF j <= k THEN k + 1 ELSE k
          BY <2>2, <4>3 DEF Shifted
        <5>2. Shifted(s, j, r, k) = at <=> k = i
          BY <1>5, <5>1
        <5> QED
          BY <4>3, <5>2
      <4> QED
        BY <4>1, <4>2, <4>3
    <3> HIDE DEF mv, mw
    <3>3. x.obj \in Pairs => /\ x.obj \in S /\ HeadIn(D, x.obj)
                             /\ \A r \in S : x.obj \notin Below(D, mv, r)
      BY <1>3, <1>4
    <3>4. E[s].entries = InsertAt(D[s].entries, j, x)
      BY <2>2
    <3>5. /\ Body(E, mw) /\ ListOf(E) = S
          /\ Below(E, mw, s) = Below(D, mv, s) \cup ({o} \cap Pairs)
          /\ \A r \in S \ {s} : Below(E, mw, r) = Below(D, mv, r)
      BY <1>2, <3>1, <3>2, <3>3, <3>4, PutBody
    <3> QED
      BY <2>2, <3>5
  <2> QED
    BY <2>1, <2>2
<1> HIDE DEF mv, mw
<1>11. ASSUME NEW r \in S
       PROVE  /\ Below(D, {}, r) \subseteq Below(E, mw, r) \cup ({o} \cap Pairs) \cup prev
              /\ Below(E, mw, r) \subseteq (Below(D, {}, r) \ prev) \cup ({o} \cap Pairs)
  <2>0. Below(D, {}, r) \subseteq Pairs
    BY DEF Below
  <2>1. /\ Below(D, {}, r) \subseteq Below(D, mv, r) \cup ({o} \cap Pairs)
        /\ Below(D, mv, r) \subseteq Below(D, {}, r)
    BY <1>2, <2>0
  <2>2. CASE r = s
    BY <1>10, <2>1, <2>2
  <2>3. CASE r # s
    <3>1. \A u \in prev : u \notin Below(D, {}, r)
      BY <1>9, <2>3
    <3> QED
      BY <1>10, <2>1, <2>3, <3>1
  <2> QED
    BY <2>2, <2>3
<1>12. P \subseteq S \ prev
  <2> DEFINE T == S \ prev
  <2>1. \A r \in T : E[r].split /\ E[r].tail # NoPair => E[r].tail \in T
    BY <1>1, <1>6, <1>9, ListClosed
  <2>2. ASSUME NEW r \in T PROVE Below(E, mw, r) \subseteq T
    <3>1. Below(D, {}, r) \subseteq S
      BY <1>1, OwnedIs
    <3> QED
      BY <1>3, <1>8, <1>11, <3>1
  <2>3. T \in SUBSET Pairs /\ Root \in T
    BY <1>1, <1>9
  <2> HIDE DEF T
  <2>4. P \subseteq T
    BY <2>1, <2>2, <2>3, OwnedWithin
  <2> QED
    BY <2>4 DEF T
<1>12a. \A q \in P : Below(E, mw, q) \subseteq P
  BY OwnedIs
<1>13. /\ Root \in P /\ P \subseteq Pairs /\ P \subseteq S
       /\ \A q \in P : D[q].split /\ D[q].tail # NoPair => D[q].tail \in P
  BY <1>6, <1>12, OwnedIs
<1>14. \A r \in prev : Below(D, {}, r) = {} /\ ~D[r].split
  <2>1. DOMAIN << >> = {}
    OBVIOUS
  <2> QED
    BY <1>8, <2>1 DEF EmptyIn, Below
<1> DEFINE U == IF o \in Pairs THEN OwnedFrom(D, {}, o) ELSE {}
<1>15. /\ U \subseteq Pairs /\ (o \in Pairs => o \in U) /\ s \notin U
       /\ \A q \in U : D[q].split /\ D[q].tail # NoPair => D[q].tail \in U
       /\ \A q \in U : Below(D, {}, q) \subseteq U
  <2>1. \A r \in Pairs : D[r].tail \in Pairs \cup {NoPair}
    BY <1>1, DiskTyped
  <2>2. o \in Pairs => /\ o \in OwnedFrom(D, {}, o) /\ OwnedFrom(D, {}, o) \subseteq Pairs
                       /\ TailsIn(D, TRUE, OwnedFrom(D, {}, o)) /\ NamesIn(D, {}, OwnedFrom(D, {}, o))
    BY <2>1, OwnedClosed
  <2> QED
    BY <2>2 DEF TailsIn, NamesIn
<1>16. S \subseteq P \cup U \cup prev
  <2> DEFINE T == P \cup U \cup prev
  <2>1. \A r \in T : D[r].split /\ D[r].tail # NoPair => D[r].tail \in T
    BY <1>13, <1>14, <1>15
  <2>2. ASSUME NEW r \in T PROVE Below(D, {}, r) \subseteq T
    <3>1. CASE r \in P
      <4>1. Below(D, {}, r) \subseteq Below(E, mw, r) \cup ({o} \cap Pairs) \cup prev
        BY <1>11, <1>13, <3>1
      <4>2. Below(E, mw, r) \subseteq P /\ ({o} \cap Pairs) \subseteq U
        <5>1. Below(E, mw, r) \subseteq P
          BY <1>12a, <3>1, Zenon
        <5> QED
          BY <1>15, <5>1
      <4> HIDE DEF U, P
      <4> QED
        BY <4>1, <4>2
    <3>2. CASE r \in U
      BY <1>15, <3>2
    <3>3. CASE r \in prev
      BY <1>14, <3>3
    <3> QED
      BY <3>1, <3>2, <3>3
  <2>3. T \in SUBSET Pairs /\ Root \in T
    BY <1>8, <1>13, <1>15
  <2> HIDE DEF T
  <2>4. Owned(D, {}) \subseteq T
    BY <2>1, <2>2, <2>3, OwnedWithin
  <2> QED
    BY <1>1, <2>4 DEF T
<1>17. s \in P
  BY <1>9, <1>15, <1>16
<1>18. o \in Pairs => o \in P
  <2>1. o \in Pairs => o \in Below(E, mw, s)
    BY <1>10
  <2>2. Below(E, mw, s) \subseteq P
    BY <1>12a, <1>17, Zenon
  <2> QED
    BY <2>1, <2>2
<1>19. U \subseteq P \cup prev
  <2>1. SUFFICES ASSUME o \in Pairs PROVE OwnedFrom(D, {}, o) \subseteq P \cup prev
    OBVIOUS
  <2> DEFINE T == P \cup prev
  <2>2. \A r \in T : D[r].split /\ D[r].tail # NoPair => D[r].tail \in T
    BY <1>13, <1>14
  <2>3. ASSUME NEW r \in T PROVE Below(D, {}, r) \subseteq T
    <3>1. CASE r \in P
      <4>1. Below(D, {}, r) \subseteq Below(E, mw, r) \cup ({o} \cap Pairs) \cup prev
        BY <1>11, <1>13, <3>1
      <4>2. Below(E, mw, r) \subseteq P /\ ({o} \cap Pairs) \subseteq P
        <5>1. Below(E, mw, r) \subseteq P
          BY <1>12a, <3>1, Zenon
        <5> QED
          BY <1>18, <5>1
      <4> HIDE DEF P
      <4> QED
        BY <4>1, <4>2
    <3>2. CASE r \in prev
      BY <1>14, <3>2
    <3> QED
      BY <3>1, <3>2
  <2>4. T \in SUBSET Pairs /\ o \in T
    BY <1>8, <1>13, <1>18, <2>1
  <2> HIDE DEF T
  <2>5. TailsIn(D, TRUE, T) /\ NamesIn(D, {}, T)
    BY <2>2, <2>3 DEF TailsIn, NamesIn
  <2>6. OwnedFrom(D, {}, o) \subseteq T
    BY <2>4, <2>5, OwnedLeast
  <2> QED
    BY <2>6 DEF T
<1>20. OrphansOf(E, mw) = prev
  BY <1>9, <1>10, <1>12, <1>16, <1>19 DEF OrphansOf
<1>21. OrphansEmpty(E, mw)
  <2>1. ASSUME NEW u \in prev PROVE EmptyIn(E, u)
    BY <1>6, <1>8, <1>9 DEF EmptyIn
  <2> QED
    BY <1>20, <2>1 DEF OrphansEmpty
<1>22. OneMove(E, mw) /\ mw \in SUBSET (Pairs \X (Nat \ {0}))
  BY <1>1, <1>7, <1>10 DEF OneMove, mw
<1>23. Shape(E, mw)
  BY <1>10, <1>21, <1>22, ShapeIs
<1> QED
  BY <1>7, <1>10, <1>20, <1>23 DEF mw
-----------------------------------------------------------------------------
(* Following tails, as the code does *)

LEMMA LeastOfSome == ASSUME NEW T \in SUBSET Nat, T # {}
  PROVE  \E x \in T : \A y \in T : x <= y
<1>1. \E x \in T : \A y \in T : ~(<<y, x>> \in OpToRel(<, Nat))
  BY WFMin, NatLessThanWellFounded, Zenon
<1>2. ASSUME NEW x \in Nat, NEW y \in Nat, ~(<<y, x>> \in OpToRel(<, Nat))
      PROVE  ~(y < x)
  BY <1>2, Zenon DEF OpToRel
<1>3. PICK x \in T : \A y \in T : ~(<<y, x>> \in OpToRel(<, Nat))
  BY <1>1
<1>4. ASSUME NEW y \in T PROVE x <= y
  <2>1. x \in Nat /\ y \in Nat /\ ~(y < x)
    BY <1>2, <1>3
  <2> QED
    BY <2>1
<1> QED
  BY <1>4

\* Among sets of pairs there is one with fewest, and one with most, pairs.
LEMMA Fewest ==
  ASSUME NEW M \in SUBSET SUBSET Pairs, M # {}
  PROVE  \E S \in M : \A T \in M : Cardinality(S) <= Cardinality(T)
<1> DEFINE N == {Cardinality(S) : S \in M}
<1>1. \A S \in M : Cardinality(S) \in Nat
  BY RootTyped, FS_Subset, FS_CardinalityType
<1>2. N \in SUBSET Nat /\ N # {}
  BY <1>1
<1> HIDE DEF N
<1>3. PICK x \in N : \A y \in N : x <= y
  BY <1>2, LeastOfSome
<1> QED
  BY <1>3 DEF N

LEMMA Less ==
  ASSUME NEW S \in SUBSET Pairs, NEW T \in SUBSET S, T # S
  PROVE  /\ Cardinality(T) < Cardinality(S) /\ ~(Cardinality(S) <= Cardinality(T))
         /\ Cardinality(T) \in Nat /\ Cardinality(S) \in Nat
<1>1. IsFiniteSet(S) /\ IsFiniteSet(T)
  BY RootTyped, FS_Subset
<1>2. Cardinality(S) \in Nat /\ Cardinality(T) \in Nat
  BY <1>1, FS_CardinalityType
<1>3. Cardinality(T) <= Cardinality(S) /\ Cardinality(S) # Cardinality(T)
  BY <1>1, FS_Subset
<1> QED
  BY <1>2, <1>3

NextOf(hard, S) == S \cup ({disk[q].tail : q \in {r \in S : hard => disk[r].split}} \ {NoPair})
ClosureOf(hard, S) ==
  {p \in Pairs : \A T \in SUBSET Pairs : S \subseteq T /\ TailsIn(disk, hard, T) => p \in T}

LEMMA NextIs ==
  ASSUME DiskType(disk), NEW hard, NEW S \in SUBSET Pairs
  PROVE  /\ NextOf(hard, S) \in SUBSET Pairs /\ S \subseteq NextOf(hard, S)
         /\ NextOf(hard, S) = S <=> TailsIn(disk, hard, S)
         /\ ClosureOf(hard, NextOf(hard, S)) = ClosureOf(hard, S)
         /\ TailsIn(disk, hard, S) => ClosureOf(hard, S) = S
<1>1. \A p \in Pairs : disk[p].tail \in Pairs \cup {NoPair}
  BY DiskTyped
<1>2. NextOf(hard, S) \in SUBSET Pairs /\ S \subseteq NextOf(hard, S)
  BY <1>1 DEF NextOf
<1>3. NextOf(hard, S) = S <=> TailsIn(disk, hard, S)
  BY DEF NextOf, TailsIn
<1>4. ASSUME NEW T \in SUBSET Pairs, TailsIn(disk, hard, T)
      PROVE  S \subseteq T <=> NextOf(hard, S) \subseteq T
  BY <1>4 DEF NextOf, TailsIn
<1>5. ClosureOf(hard, NextOf(hard, S)) = ClosureOf(hard, S)
  BY <1>4 DEF ClosureOf
<1>6. TailsIn(disk, hard, S) => ClosureOf(hard, S) = S
  BY DEF ClosureOf
<1> QED
  BY <1>2, <1>3, <1>5, <1>6

LEMMA WalkIs ==
  ASSUME DiskType(disk), NEW from \in Pairs, NEW hard \in BOOLEAN
  PROVE  Walk(from, hard) = WalkOf(disk, from, hard)
<1> DEFINE Eq(f) == f = [S \in SUBSET Pairs |-> IF NextOf(hard, S) = S THEN S ELSE f[NextOf(hard, S)]]
           all == CHOOSE f : Eq(f)
           C == [S \in SUBSET Pairs |-> ClosureOf(hard, S)]
<1>1. Eq(C)
  <2>1. ASSUME NEW S \in SUBSET Pairs
        PROVE  C[S] = IF NextOf(hard, S) = S THEN S ELSE C[NextOf(hard, S)]
    BY NextIs
  <2> QED
    BY <2>1
<1>2. Eq(all)
  BY <1>1
<1> HIDE DEF all
<1>3. \A S \in SUBSET Pairs : all[S] = ClosureOf(hard, S)
  <2> DEFINE Bad == {S \in SUBSET Pairs : all[S] # ClosureOf(hard, S)}
             M == {Pairs \ S : S \in Bad}
  <2>1. SUFFICES ASSUME Bad # {} PROVE FALSE
    OBVIOUS
  <2>2. M \in SUBSET SUBSET Pairs /\ M # {}
    BY <2>1
  <2>3. PICK X \in M : \A T \in M : Cardinality(X) <= Cardinality(T)
    BY <2>2, Fewest
  <2>4. PICK S \in Bad : X = Pairs \ S
    BY <2>3
  <2> DEFINE T == NextOf(hard, S)
  <2>5. T \in SUBSET Pairs /\ S \subseteq T
    BY NextIs
  <2>6. all[S] = IF T = S THEN S ELSE all[T]
    BY <1>2
  <2>7. CASE T = S
    BY <2>4, <2>6, <2>7, NextIs
  <2>8. CASE T # S
    <3>1. all[T] # ClosureOf(hard, T)
      BY <2>4, <2>6, <2>8, NextIs
    <3>2. Pairs \ T \in M
      BY <2>5, <3>1
    <3>3. Pairs \ T \in SUBSET X /\ Pairs \ T # X /\ X \in SUBSET Pairs
      BY <2>4, <2>5, <2>8
    <3> HIDE DEF M, T
    <3> QED
      BY <2>3, <3>2, <3>3, Less
  <2> QED
    BY <2>7, <2>8
<1>4. Walk(from, hard) = all[{from}]
  BY DEF Walk, all, NextOf
<1>5. ClosureOf(hard, {from}) = WalkOf(disk, from, hard)
  BY DEF ClosureOf, WalkOf
<1> QED
  BY <1>3, <1>4, <1>5

\* Whoever is met behind q is met behind those that lead to q.
LEMMA WalkIn ==
  ASSUME NEW D, DiskType(D), NEW d \in Pairs, NEW hard \in BOOLEAN, NEW q \in WalkOf(D, d, hard)
  PROVE  /\ q \in Pairs /\ WalkOf(D, q, hard) \subseteq WalkOf(D, d, hard)
         /\ WalkOf(D, d, hard) \subseteq WalkOf(D, d, FALSE)
<1>1. \A p \in Pairs : D[p].tail \in Pairs \cup {NoPair}
  BY DiskTyped
<1>2. \A b \in BOOLEAN : /\ d \in WalkOf(D, d, b) /\ WalkOf(D, d, b) \in SUBSET Pairs
                         /\ TailsIn(D, b, WalkOf(D, d, b))
  BY <1>1, WalkClosed
<1>3. WalkOf(D, q, hard) \subseteq WalkOf(D, d, hard)
  BY <1>2, WalkLeast
<1>4. TailsIn(D, hard, WalkOf(D, d, FALSE))
  BY <1>2 DEF TailsIn
<1> QED
  BY <1>2, <1>3, <1>4, WalkLeast

\* What a pair of the list leads to is on the list.
LEMMA WalkListed ==
  ASSUME NEW D, DiskType(D), NEW d \in ListOf(D), NEW hard \in BOOLEAN
  PROVE  /\ d \in WalkOf(D, d, hard) /\ WalkOf(D, d, hard) \subseteq ListOf(D)
         /\ ListOf(D) \subseteq Pairs
         /\ \A q \in WalkOf(D, d, hard) :
              (hard => D[q].split) /\ D[q].tail # NoPair => D[q].tail \in WalkOf(D, d, hard)
<1>1. ListOf(D) \subseteq Pairs /\ ListOf(D) \in SUBSET Pairs
  BY ListClosed
<1>2. TailsIn(D, hard, ListOf(D))
  BY ListClosed DEF TailsIn
<1>3. WalkOf(D, d, hard) \subseteq ListOf(D)
  BY <1>1, <1>2, WalkLeast
<1>4. \A p \in Pairs : D[p].tail \in Pairs \cup {NoPair}
  BY DiskTyped
<1>5. d \in WalkOf(D, d, hard) /\ TailsIn(D, hard, WalkOf(D, d, hard))
  BY <1>1, <1>4, WalkClosed
<1> QED
  BY <1>1, <1>3, <1>5 DEF TailsIn

\* The list never returns to a pair.
LEMMA NoReturn ==
  ASSUME NEW D, DiskType(D), Threaded(D), NEW q \in ListOf(D), D[q].tail # NoPair
  PROVE  q \notin WalkOf(D, D[q].tail, FALSE)
<1> DEFINE t == D[q].tail
           S == WalkOf(D, t, FALSE)
           U == ListOf(D) \ S
<1>1. \A r \in ListOf(D) : D[r].tail # Root
  BY DEF Threaded
<1>2. \A r, s \in ListOf(D) : D[r].tail = D[s].tail /\ D[r].tail # NoPair => r = s
  BY DEF Threaded
<1>3. t \in ListOf(D) /\ ListOf(D) \subseteq Pairs /\ Root \in ListOf(D)
  BY ListClosed
<1>4. t \in S /\ S \subseteq ListOf(D)
  BY <1>3, WalkListed
<1>5. SUFFICES ASSUME q \in S PROVE FALSE
  OBVIOUS
<1>6. \A p \in Pairs : D[p].tail \in Pairs \cup {NoPair}
  BY DiskTyped
<1>7. ASSUME NEW s \in S PROVE \E r \in S : D[r].tail = s
  <2>1. CASE s = t
    BY <1>5, <2>1
  <2>2. CASE s # t
    <3>1. t \in Pairs /\ s \in WalkOf(D, t, FALSE)
      BY <1>3
    <3> HIDE DEF t, S
    <3>2. \E r \in WalkOf(D, t, FALSE) : D[r].tail = s /\ (FALSE => D[r].split)
      BY <1>6, <2>2, <3>1, WalkBefore, Zenon
    <3> QED
      BY <3>2 DEF S
  <2> QED
    BY <2>1, <2>2
<1>8. Root \in U
  BY <1>1, <1>3, <1>4, <1>7
<1>9. ASSUME NEW r \in U, D[r].tail # NoPair PROVE D[r].tail \in U
  <2>1. D[r].tail \in ListOf(D)
    BY <1>9, ListClosed
  <2>2. CASE D[r].tail \in S
    <3>1. PICK s \in S : D[s].tail = D[r].tail
      BY <1>7, <2>2
    <3> QED
      BY <1>2, <1>4, <1>9, <3>1
  <2> QED
    BY <2>1, <2>2
<1>10. U \in SUBSET Pairs /\ t \notin U
  BY <1>3, <1>4
<1> HIDE DEF U
<1>11. ListOf(D) \subseteq U
  BY <1>8, <1>9, <1>10, ListLeast
<1> QED
  BY <1>3, <1>10, <1>11

\* A chain of hard tails ends.
LEMMA ChainEnds ==
  ASSUME NEW D, DiskType(D), Threaded(D), NEW p \in ListOf(D)
  PROVE  \E q \in WalkOf(D, p, TRUE) : ~D[q].split
<1> DEFINE C == WalkOf(D, p, TRUE)
           M == {WalkOf(D, q, FALSE) : q \in C}
<1>1. p \in C /\ C \subseteq ListOf(D) /\ ListOf(D) \subseteq Pairs
  BY WalkListed
<1>2. \A q \in C : q \in WalkOf(D, q, FALSE) /\ WalkOf(D, q, FALSE) \in SUBSET Pairs
  BY <1>1, WalkListed
<1>3. M \in SUBSET SUBSET Pairs /\ M # {}
  BY <1>1, <1>2
<1>4. PICK X \in M : \A T \in M : Cardinality(X) <= Cardinality(T)
  BY <1>3, Fewest
<1>5. PICK q \in C : X = WalkOf(D, q, FALSE)
  BY <1>4
<1>6. CASE D[q].split
  <2> DEFINE t == D[q].tail
  <2>1. q \in ListOf(D) /\ t # NoPair
    BY <1>1, <1>5, <1>6 DEF Threaded
  <2>2. t \in C
    BY <1>6, <2>1, WalkListed
  <2>3. t \in X /\ q \in X
    BY <1>5, <2>1, WalkListed
  <2>4. q \notin WalkOf(D, t, FALSE) /\ WalkOf(D, t, FALSE) \in M
    BY <2>1, <2>2, NoReturn
  <2>5. WalkOf(D, t, FALSE) \subseteq X /\ X \in SUBSET Pairs
    BY <1>1, <1>2, <1>5, <2>3, WalkIn
  <2> HIDE DEF M, t
  <2> QED
    BY <1>4, <2>3, <2>4, <2>5, Less
<1> QED
  BY <1>5, <1>6

\* Of two pairs of a directory one is behind the other.
LEMMA ChainLine ==
  ASSUME NEW D, DiskType(D), NEW d \in ListOf(D),
         NEW q \in WalkOf(D, d, TRUE), NEW r \in WalkOf(D, d, TRUE)
  PROVE  r \in WalkOf(D, q, TRUE) \/ q \in WalkOf(D, r, TRUE)
<1> DEFINE C == WalkOf(D, d, TRUE)
           U == {s \in C : s \in WalkOf(D, q, TRUE) \/ q \in WalkOf(D, s, TRUE)}
<1>1. d \in C /\ C \subseteq ListOf(D) /\ ListOf(D) \subseteq Pairs
  BY WalkListed
<1>2. ASSUME NEW s \in U, D[s].split, D[s].tail # NoPair PROVE D[s].tail \in U
  <2> DEFINE t == D[s].tail
  <2>1. s \in ListOf(D) /\ q \in ListOf(D) /\ t \in C /\ t \in ListOf(D)
    BY <1>1, <1>2, WalkListed
  <2>2. CASE s \in WalkOf(D, q, TRUE)
    <3>1. t \in WalkOf(D, q, TRUE)
      BY <1>2, <2>1, <2>2, WalkListed
    <3> QED
      BY <2>1, <3>1
  <2>3. CASE q \in WalkOf(D, s, TRUE) /\ q # s
    <3> DEFINE V == {s} \cup WalkOf(D, t, TRUE)
    <3>1. t \in WalkOf(D, t, TRUE) /\ WalkOf(D, t, TRUE) \subseteq Pairs
      BY <1>1, <2>1, WalkListed
    <3>2. TailsIn(D, TRUE, V)
      BY <2>1, <3>1, WalkListed DEF TailsIn
    <3>3. V \in SUBSET Pairs /\ s \in V
      BY <1>1, <2>1, <3>1
    <3> HIDE DEF V
    <3>4. WalkOf(D, s, TRUE) \subseteq V
      BY <3>2, <3>3, WalkLeast
    <3> QED
      BY <2>1, <2>3, <3>4 DEF V
  <2>4. CASE q = s
    BY <1>1, <1>2, <2>1, <2>4, WalkListed
  <2> QED
    BY <1>2, <2>2, <2>3, <2>4
<1>3. d \in U /\ U \in SUBSET Pairs
  BY <1>1
<1> HIDE DEF U
<1>4. TailsIn(D, TRUE, U)
  BY <1>2 DEF TailsIn
<1>5. C \subseteq U
  BY <1>3, <1>4, WalkLeast
<1> QED
  BY <1>5 DEF U

\* Among some pairs of a directory there is one that leads to them all.
LEMMA First ==
  ASSUME NEW D, DiskType(D), NEW d \in ListOf(D),
         NEW A \in SUBSET WalkOf(D, d, TRUE), A # {}
  PROVE  \E q \in A : \A r \in A : r \in WalkOf(D, q, TRUE)
<1> DEFINE M == {Pairs \ WalkOf(D, q, TRUE) : q \in A}
<1>1. A \subseteq ListOf(D)
  BY WalkListed
<1>2. \A q \in A : q \in WalkOf(D, q, TRUE) /\ WalkOf(D, q, TRUE) \subseteq Pairs
  BY <1>1, WalkListed
<1>3. M \in SUBSET SUBSET Pairs /\ M # {}
  OBVIOUS
<1>4. PICK X \in M : \A T \in M : Cardinality(X) <= Cardinality(T)
  BY <1>3, Fewest
<1>5. PICK q \in A : X = Pairs \ WalkOf(D, q, TRUE)
  BY <1>4
<1>6. ASSUME NEW r \in A PROVE r \in WalkOf(D, q, TRUE)
  <2> DEFINE Y == Pairs \ WalkOf(D, r, TRUE)
  <2>1. SUFFICES ASSUME r \notin WalkOf(D, q, TRUE) PROVE FALSE
    OBVIOUS
  <2>2. q \in WalkOf(D, r, TRUE)
    BY <2>1, ChainLine
  <2>3. WalkOf(D, q, TRUE) \subseteq WalkOf(D, r, TRUE)
    BY <1>1, <2>2, WalkListed, WalkIn
  <2>4. Y \in SUBSET X /\ Y # X /\ Y \in M /\ X \in SUBSET Pairs
    BY <1>2, <1>5, <2>1, <2>3
  <2> HIDE DEF Y, M
  <2> QED
    BY <1>4, <2>4, Less
<1> QED
  BY <1>6

\* Directories that begin in different pairs have no pair in common.
Begins(D, p) == \A q \in ListOf(D) : D[q].tail = p => ~D[q].split
LEMMA HeadsApart ==
  ASSUME NEW D, DiskType(D), Threaded(D), NEW x \in ListOf(D), NEW y \in ListOf(D),
         Begins(D, x), Begins(D, y),
         NEW p \in WalkOf(D, x, TRUE), p \in WalkOf(D, y, TRUE)
  PROVE  x = y
<1> DEFINE X == WalkOf(D, x, TRUE)
           Y == WalkOf(D, y, TRUE)
           U == X \ Y
<1>1. /\ x \in X /\ y \in Y /\ X \subseteq ListOf(D) /\ Y \subseteq ListOf(D)
      /\ ListOf(D) \subseteq Pairs
  BY WalkListed
<1>2. \A r, s \in ListOf(D) : D[r].tail = D[s].tail /\ D[r].tail # NoPair => r = s
  BY DEF Threaded
<1>3. \A r \in Pairs : D[r].tail \in Pairs \cup {NoPair}
  BY DiskTyped
<1>4. ASSUME NEW t \in Y, t # y PROVE \E r \in Y : D[r].tail = t /\ D[r].split
  BY <1>1, <1>3, <1>4, WalkBefore
<1>5. x \in Y
  <2>1. SUFFICES ASSUME x \notin Y PROVE FALSE
    OBVIOUS
  <2>2. ASSUME NEW r \in U, D[r].split, D[r].tail # NoPair PROVE D[r].tail \in U
    <3>1. D[r].tail \in X
      BY <2>2, WalkListed
    <3>2. CASE D[r].tail \in Y
      <4>1. D[r].tail # y
        BY <1>1, <2>2 DEF Begins
      <4>2. PICK s \in Y : D[s].tail = D[r].tail /\ D[s].split
        BY <1>4, <3>2, <4>1
      <4> QED
        BY <1>1, <1>2, <2>2, <4>2
    <3> QED
      BY <3>1, <3>2
  <2>3. U \in SUBSET Pairs /\ x \in U /\ p \notin U
    BY <1>1, <2>1
  <2> HIDE DEF U
  <2>4. TailsIn(D, TRUE, U)
    BY <2>2 DEF TailsIn
  <2> QED
    BY <2>3, <2>4, WalkLeast
<1> QED
  BY <1>1, <1>4, <1>5 DEF Begins

\* Directories as the code follows them.
LEMMA ChainEndIs ==
  ASSUME DiskType(disk), Threaded(disk), NEW p \in ListOf(disk)
  PROVE  /\ ChainEnd(p) \in WalkOf(disk, p, TRUE) /\ ChainEnd(p) \in ListOf(disk)
         /\ ~disk[ChainEnd(p)].split /\ (~disk[p].split => ChainEnd(p) = p)
<1>1. p \in Pairs
  BY ListClosed
<1>2. Chain(p) = WalkOf(disk, p, TRUE)
  BY <1>1, WalkIs DEF Chain
<1>3. ChainEnd(p) \in WalkOf(disk, p, TRUE) /\ ~disk[ChainEnd(p)].split
  BY <1>2, ChainEnds DEF ChainEnd
<1>4. WalkOf(disk, p, TRUE) \subseteq ListOf(disk)
  BY WalkListed
<1>5. ASSUME ~disk[p].split PROVE WalkOf(disk, p, TRUE) \subseteq {p}
  <2>1. TailsIn(disk, TRUE, {p})
    BY <1>5 DEF TailsIn
  <2> DEFINE T == {p}
  <2>2. T \in SUBSET Pairs /\ p \in T
    BY <1>1
  <2> HIDE DEF T
  <2>3. WalkOf(disk, p, TRUE) \subseteq T
    BY <2>1, <2>2, WalkLeast DEF T
  <2> QED
    BY <2>3 DEF T
<1> QED
  BY <1>3, <1>4, <1>5

LEMMA CountIs ==
  ASSUME DiskType(disk), NEW p \in Pairs, NEW n
  PROVE  Count(p, n) \in 0..Len(disk[p].entries)
<1> DEFINE l == Len(disk[p].entries)
           f == [i \in 1..l |-> <<p, i>>]
           S == {e \in Entries(p) : Name(e) < n}
<1>1. disk[p].entries \in Seq(EntryType)
  BY DiskTyped
<1>2. l \in Nat /\ DOMAIN disk[p].entries = 1..l
  BY <1>1
<1>3. Entries(p) = {f[i] : i \in 1..l}
  BY <1>2 DEF Entries
<1>4. IsFiniteSet(1..l) /\ Cardinality(1..l) = l
  BY <1>2, FS_Interval
<1> HIDE DEF f, l
<1>5. IsFiniteSet({f[i] : i \in 1..l}) /\ Cardinality({f[i] : i \in 1..l}) <= l
  <2>1. f \in Surjection(1..l, {f[i] : i \in 1..l})
    BY DEF f, Surjection
  <2> QED
    BY <1>4, <2>1, FS_Surjection
<1>6. S \in SUBSET Entries(p)
  OBVIOUS
<1> HIDE DEF S
<1>7. IsFiniteSet(S) /\ Cardinality(S) <= Cardinality(Entries(p))
  BY <1>3, <1>5, <1>6, FS_Subset
<1>8. Cardinality(S) \in Nat /\ Cardinality(Entries(p)) \in Nat
  BY <1>3, <1>5, <1>7, FS_CardinalityType
<1>9. Cardinality(S) \in 0..l
  BY <1>2, <1>3, <1>5, <1>7, <1>8
<1> QED
  BY <1>9 DEF Count, S, l

LEMMA PlaceIs ==
  ASSUME DiskType(disk), Threaded(disk), NEW d \in ListOf(disk), NEW n
  PROVE  /\ Place(d, n) = <<Place(d, n)[1], Place(d, n)[2]>>
         /\ Place(d, n)[1] \in WalkOf(disk, d, TRUE) /\ Place(d, n)[1] \in ListOf(disk)
         /\ Place(d, n)[2] \in 1..(Len(disk[Place(d, n)[1]].entries) + 1)
<1> DEFINE after == {q \in Chain(d) : \E e \in Entries(q) : Name(e) >= n}
           first == CHOOSE q \in after : \A r \in after : r \in Chain(q)
           p == IF after = {} THEN ChainEnd(d) ELSE first
<1>1. d \in Pairs /\ ListOf(disk) \subseteq Pairs /\ WalkOf(disk, d, TRUE) \subseteq ListOf(disk)
  BY ListClosed, WalkListed
<1>2. \A q \in Pairs : Chain(q) = WalkOf(disk, q, TRUE)
  BY WalkIs DEF Chain
<1>3. Place(d, n) = <<p, Count(p, n) + 1>>
  BY DEF Place
<1>4. p \in WalkOf(disk, d, TRUE)
  <2>1. after \in SUBSET WalkOf(disk, d, TRUE)
    BY <1>1, <1>2
  <2> HIDE DEF after
  <2>2. CASE after # {}
    <3>1. \E q \in after : \A r \in after : r \in WalkOf(disk, q, TRUE)
      BY <2>1, <2>2, First
    <3>2. \E q \in after : \A r \in after : r \in Chain(q)
      BY <1>1, <1>2, <2>1, <3>1
    <3>3. first \in after
      BY <3>2
    <3> QED
      BY <2>1, <2>2, <3>3
  <2>3. CASE after = {}
    BY <2>3, ChainEndIs
  <2> QED
    BY <2>2, <2>3
<1> HIDE DEF p
<1>5. p \in Pairs /\ Len(disk[p].entries) \in Nat
  <2>1. p \in Pairs
    BY <1>1, <1>4
  <2>2. disk[p].entries \in Seq(EntryType)
    BY <2>1, DiskTyped
  <2> QED
    BY <2>1, <2>2
<1>6. Count(p, n) \in 0..Len(disk[p].entries)
  BY <1>5, CountIs
<1>7. Count(p, n) + 1 \in 1..(Len(disk[p].entries) + 1)
  BY <1>5, <1>6
<1> DEFINE k == Count(p, n) + 1
<1>8. Place(d, n) = <<p, k>> /\ k \in 1..(Len(disk[p].entries) + 1)
  BY <1>3, <1>7
<1> HIDE DEF k
<1>9. Place(d, n)[1] = p /\ Place(d, n)[2] = k
  BY <1>8
<1> QED
  BY <1>1, <1>4, <1>8, <1>9

-----------------------------------------------------------------------------
(* What names lead to *)

LinkNodes == [name : Names, obj : Files \cup Pairs]
Nodes == [path : Seq(Names), obj : Files \cup Pairs]
\* What is named in the directory at o.
NamedIn(o) == UNION {Below(disk, gdisk.moves, q) : q \in WalkOf(disk, o, TRUE)}

LEMMA LinksAre ==
  ASSUME DiskType(disk), NEW o \in Pairs
  PROVE  /\ LinksOf(o) \subseteq LinkNodes
         /\ {l.obj : l \in LinksOf(o)} \cap Pairs = NamedIn(o)
<1>1. \A p \in Pairs : disk[p].tail \in Pairs \cup {NoPair}
  BY DiskTyped
<1>2. Chain(o) = WalkOf(disk, o, TRUE) /\ WalkOf(disk, o, TRUE) \subseteq Pairs
  BY <1>1, WalkIs, WalkClosed DEF Chain
<1>3. ASSUME NEW q \in Chain(o), NEW e \in Shown(q)
      PROVE  /\ q \in Pairs /\ e[1] = q /\ e[2] \in DOMAIN disk[q].entries /\ e = <<q, e[2]>>
             /\ e \notin gdisk.moves /\ Obj(e) = disk[q].entries[e[2]].obj
             /\ Name(e) \in Names /\ Obj(e) \in Files \cup Pairs
  <2>1. /\ q \in Pairs /\ e[1] = q /\ e[2] \in DOMAIN disk[q].entries /\ e = <<q, e[2]>>
        /\ e \notin gdisk.moves
    <3>1. PICK i \in DOMAIN disk[q].entries : e = <<q, i>>
      BY <1>3 DEF Shown, Entries
    <3>2. e[1] = q /\ e[2] = i
      BY <3>1
    <3> QED
      BY <1>2, <1>3, <3>1, <3>2 DEF Shown
  <2>2. disk[q].entries[e[2]] \in EntryType
    BY <2>1, DiskTyped
  <2> QED
    BY <2>1, <2>2 DEF Obj, Name, EntryType
<1>4. LinksOf(o) \subseteq LinkNodes
  BY <1>3 DEF LinksOf, LinkNodes
<1>5. ASSUME NEW l \in LinksOf(o), l.obj \in Pairs PROVE l.obj \in NamedIn(o)
  <2>1. PICK q \in Chain(o) : \E e \in Shown(q) : l = [name |-> Name(e), obj |-> Obj(e)]
    BY <1>5 DEF LinksOf
  <2>2. PICK e \in Shown(q) : l = [name |-> Name(e), obj |-> Obj(e)]
    BY <2>1
  <2>3. l.obj \in Below(disk, gdisk.moves, q)
    BY <1>3, <1>5, <2>2 DEF Below
  <2> QED
    BY <1>2, <2>3 DEF NamedIn
<1>6. ASSUME NEW p \in NamedIn(o) PROVE p \in Pairs /\ \E l \in LinksOf(o) : l.obj = p
  <2>1. PICK q \in Chain(o) : p \in Below(disk, gdisk.moves, q)
    BY <1>2 DEF NamedIn
  <2>2. PICK i \in DOMAIN disk[q].entries :
          <<q, i>> \notin gdisk.moves /\ disk[q].entries[i].obj = p
    BY <2>1 DEF Below
  <2> DEFINE e == <<q, i>>
  <2>3. e \in Shown(q) /\ Obj(e) = p
    BY <2>2 DEF Shown, Entries, Obj
  <2>4. [name |-> Name(e), obj |-> Obj(e)] \in LinksOf(o)
    BY <2>3 DEF LinksOf
  <2> QED
    BY <2>1, <2>3, <2>4 DEF Below
<1> QED
  BY <1>4, <1>5, <1>6

LEMMA UpTo ==
  ASSUME NEW N \in Nat, NEW T, 0 \in T,
         \A k \in 1..N : k - 1 \in T => k \in T
  PROVE  0..N \subseteq T
<1> DEFINE U == (0..N) \ T
<1>1. SUFFICES ASSUME U # {} PROVE FALSE
  OBVIOUS
<1>2. U \in SUBSET Nat
  OBVIOUS
<1> HIDE DEF U
<1>3. PICK x \in U : \A y \in U : x <= y
  BY <1>1, <1>2, LeastOfSome
<1>4. x \in 1..N /\ x \notin T
  BY <1>3 DEF U
<1>5. x - 1 \in 0..N /\ x - 1 \notin U
  BY <1>2, <1>3, <1>4
<1>6. x - 1 \in T
  BY <1>5 DEF U
<1> QED
  BY <1>4, <1>6

\* N rounds from a, each by its own function.
Rounded(S, a, N, F) == \E g \in [0..N -> S] : g[0] = a /\ \A k \in 1..N : g[k] = F[k][g[k - 1]]
LEMMA Rounds ==
  ASSUME NEW S, NEW a \in S, NEW N \in Nat, NEW F \in [0..N -> [S -> S]]
  PROVE  Rounded(S, a, N, F)
<1> DEFINE G(n) == {g \in [0..n -> S] : g[0] = a /\ \A k \in 1..n : g[k] = F[k][g[k - 1]]}
           T == {n \in Nat : G(n) # {}}
<1>1. 0 \in T
  <2>1. [k \in 0..0 |-> a] \in G(0)
    OBVIOUS
  <2> QED
    BY <2>1
<1>2. ASSUME NEW n \in 1..N, n - 1 \in T PROVE n \in T
  <2>1. PICK g \in G(n - 1) : TRUE
    BY <1>2
  <2> DEFINE f == [k \in 0..n |-> IF k = n THEN F[n][g[n - 1]] ELSE g[k]]
  <2>2. n \in Nat /\ n \in 0..N /\ n - 1 \in 0..(n - 1) /\ g \in [0..(n - 1) -> S]
    OBVIOUS
  <2>3. F[n] \in [S -> S] /\ g[n - 1] \in S
    BY <2>2
  <2>4. f \in [0..n -> S]
    <3>1. ASSUME NEW k \in 0..n PROVE (IF k = n THEN F[n][g[n - 1]] ELSE g[k]) \in S
      <4>1. CASE k = n
        BY <2>3, <4>1
      <4>2. CASE k # n
        <5>1. k \in 0..(n - 1)
          BY <4>2
        <5> QED
          BY <2>2, <4>2, <5>1
      <4> QED
        BY <4>1, <4>2
    <3> QED
      BY <3>1
  <2>5. f[0] = a
    <3>1. 0 \in 0..n /\ 0 # n
      OBVIOUS
    <3> QED
      BY <3>1
  <2>6. ASSUME NEW k \in 1..n PROVE f[k] = F[k][f[k - 1]]
    <3>1. k \in 0..n /\ k - 1 \in 0..n /\ k - 1 # n
      OBVIOUS
    <3>2. f[k - 1] = g[k - 1]
      BY <3>1
    <3>3. CASE k = n
      BY <3>1, <3>2, <3>3
    <3>4. CASE k # n
      <4>1. k \in 1..(n - 1)
        BY <3>4
      <4>2. g[k] = F[k][g[k - 1]]
        BY <4>1
      <4> QED
        BY <3>1, <3>2, <3>4, <4>2
    <3> QED
      BY <3>3, <3>4
  <2> HIDE DEF f
  <2> QED
    BY <2>2, <2>4, <2>5, <2>6
<1> HIDE DEF T
<1>3. 0..N \subseteq T
  BY <1>1, <1>2, UpTo
<1>4. G(N) # {}
  BY <1>3 DEF T
<1> QED
  BY <1>4 DEF Rounded

\* The rounds of NodesFrom.
BelowNode(x) ==
  IF x.obj \notin Pairs THEN {}
  ELSE {[path |-> Append(x.path, l.name), obj |-> l.obj] : l \in LinksOf(x.obj)}
Deeper(N, k) == N \cup UNION {BelowNode(x) : x \in {y \in N : Len(y.path) = k}}

\* The nodes by depth; the last are NodesFrom(d).
NodeRounds(d, g) ==
  LET N == Cardinality(Pairs) IN
  /\ g \in [0..N -> SUBSET Nodes] /\ g[N] = NodesFrom(d)
  /\ g[0] = {[path |-> <<>>, obj |-> d]} /\ \A k \in 1..N : g[k] = Deeper(g[k - 1], k - 1)

LEMMA DeeperIs ==
  ASSUME DiskType(disk), NEW N \in SUBSET Nodes, NEW k \in Nat
  PROVE  Deeper(N, k) \in SUBSET Nodes
<1>1. ASSUME NEW x \in N, NEW y \in BelowNode(x) PROVE y \in Nodes
  <2>1. x.obj \in Pairs /\ x.path \in Seq(Names)
    BY <1>1 DEF BelowNode, Nodes
  <2>2. PICK l \in LinksOf(x.obj) : y = [path |-> Append(x.path, l.name), obj |-> l.obj]
    BY <1>1, <2>1 DEF BelowNode
  <2>3. l \in LinkNodes
    BY <2>1, <2>2, LinksAre
  <2>4. l.name \in Names /\ l.obj \in Files \cup Pairs
    BY <2>3 DEF LinkNodes
  <2>5. Append(x.path, l.name) \in Seq(Names)
    BY <2>1, <2>4
  <2> HIDE DEF LinksOf
  <2> QED
    BY <2>2, <2>4, <2>5 DEF Nodes
<1> QED
  BY <1>1 DEF Deeper

LEMMA NodesFromIs ==
  ASSUME DiskType(disk), NEW d \in Pairs
  PROVE  \E g : NodeRounds(d, g)
<1> DEFINE N == Cardinality(Pairs)
           a == {[path |-> <<>>, obj |-> d]}
           Eq(f) == f = [k \in 0..N |-> IF k = 0 THEN a ELSE Deeper(f[k - 1], k - 1)]
           to == CHOOSE f : Eq(f)
           F == [k \in 0..N |-> [M \in SUBSET Nodes |-> Deeper(M, k - 1)]]
           F1 == [k \in 0..N |-> [M \in SUBSET Nodes |-> IF k = 0 THEN M ELSE F[k][M]]]
<1>1. N \in Nat
  BY RootTyped, FS_CardinalityType
<1>2. a \in SUBSET Nodes
  <2>1. << >> \in Seq(Names)
    OBVIOUS
  <2> QED
    BY <2>1 DEF Nodes
<1> HIDE DEF N, a
<1>3. F1 \in [0..N -> [SUBSET Nodes -> SUBSET Nodes]]
  <2>1. ASSUME NEW k \in 0..N, NEW M \in SUBSET Nodes
        PROVE  (IF k = 0 THEN M ELSE F[k][M]) \in SUBSET Nodes
    <3>1. CASE k = 0
      BY <3>1
    <3>2. CASE k # 0
      <4>1. k - 1 \in Nat
        BY <3>2, <1>1
      <4>2. Deeper(M, k - 1) \in SUBSET Nodes
        BY <4>1, DeeperIs
      <4> QED
        BY <3>2, <4>2
    <3> QED
      BY <3>1, <3>2
  <2> HIDE DEF F
  <2> QED
    BY <2>1
<1>4. PICK g \in [0..N -> SUBSET Nodes] : g[0] = a /\ \A k \in 1..N : g[k] = F1[k][g[k - 1]]
  <2> DEFINE S == SUBSET Nodes
  <2>1. F1 \in [0..N -> [S -> S]] /\ a \in S
    BY <1>2, <1>3
  <2> HIDE DEF F1, S
  <2>2. Rounded(S, a, N, F1)
    BY <1>1, <2>1, Rounds
  <2> QED
    BY <2>2 DEF S, Rounded
<1>5. ASSUME NEW k \in 1..N PROVE g[k] = Deeper(g[k - 1], k - 1)
  <2>1. k \in 0..N /\ k # 0 /\ k - 1 \in 0..N
    BY <1>1
  <2>2. g[k - 1] \in SUBSET Nodes
    BY <2>1
  <2> QED
    BY <1>4, <2>1, <2>2
<1> HIDE DEF F1
<1>6. Eq(g)
  <2>1. ASSUME NEW k \in 0..N
        PROVE  g[k] = IF k = 0 THEN a ELSE Deeper(g[k - 1], k - 1)
    <3>1. k = 0 \/ k \in 1..N
      BY <1>1
    <3>2. k \in 1..N => k # 0
      BY <1>1
    <3> QED
      BY <1>4, <1>5, <3>1, <3>2
  <2> QED
    BY <2>1
<1>7. Eq(to)
  BY <1>6
<1> HIDE DEF to
<1>8. \A k \in 0..N : to[k] = IF k = 0 THEN a ELSE Deeper(to[k - 1], k - 1)
  BY <1>7
<1>9. to = g
  <2> DEFINE T == {k \in 0..N : to[k] = g[k]}
  <2>1. 0 \in 0..N /\ to[0] = g[0]
    BY <1>1, <1>4, <1>8
  <2>2. ASSUME NEW k \in 1..N, k - 1 \in T PROVE k \in T
    <3>1. k \in 0..N /\ k # 0
      BY <1>1
    <3> QED
      BY <1>5, <1>8, <2>2, <3>1
  <2>3. 0 \in T
    BY <2>1
  <2> HIDE DEF T
  <2>4. 0..N \subseteq T
    BY <1>1, <2>2, <2>3, UpTo
  <2>5. \A k \in 0..N : to[k] = g[k]
    BY <2>4 DEF T
  <2>6. DOMAIN to = 0..N /\ to = [k \in 0..N |-> to[k]]
    BY <1>7
  <2> QED
    BY <2>5, <2>6
<1>10. NodesFrom(d) = to[N]
  BY DEF NodesFrom, to, N, a, Deeper, BelowNode
<1> QED
  BY <1>4, <1>5, <1>9, <1>10 DEF NodeRounds, N, a

\* What the nodes in M are.
PairsIn(M) == {x.obj : x \in M} \cap Pairs

LEMMA BelowNodeIs ==
  ASSUME DiskType(disk), NEW x \in Nodes
  PROVE  /\ \A y \in BelowNode(x) : y \in Nodes /\ Len(y.path) = Len(x.path) + 1
         /\ PairsIn(BelowNode(x)) = IF x.obj \in Pairs THEN NamedIn(x.obj) ELSE {}
<1>1. x.path \in Seq(Names) /\ Len(x.path) \in Nat
  <2>1. x.path \in Seq(Names)
    BY DEF Nodes
  <2> QED
    BY <2>1
<1>2. CASE x.obj \notin Pairs
  BY <1>2 DEF BelowNode, PairsIn
<1>3. CASE x.obj \in Pairs
  <2>1. LinksOf(x.obj) \subseteq LinkNodes /\ {l.obj : l \in LinksOf(x.obj)} \cap Pairs = NamedIn(x.obj)
    BY <1>3, LinksAre
  <2> DEFINE ls == LinksOf(x.obj)
             N == NamedIn(x.obj)
  <2>2. BelowNode(x) = {[path |-> Append(x.path, l.name), obj |-> l.obj] : l \in ls}
    BY <1>3 DEF BelowNode
  <2> HIDE DEF ls, N
  <2>3. ASSUME NEW l \in ls
        PROVE  /\ l.name \in Names /\ l.obj \in Files \cup Pairs
               /\ Append(x.path, l.name) \in Seq(Names)
               /\ Len(Append(x.path, l.name)) = Len(x.path) + 1
    <3>1. l.name \in Names /\ l.obj \in Files \cup Pairs
      BY <2>1, <2>3 DEF LinkNodes, ls
    <3> QED
      BY <1>1, <3>1
  <2>4. ASSUME NEW y \in BelowNode(x) PROVE y \in Nodes /\ Len(y.path) = Len(x.path) + 1
    <3>1. PICK l \in ls : y = [path |-> Append(x.path, l.name), obj |-> l.obj]
      BY <2>2, <2>4
    <3>2. y.path = Append(x.path, l.name) /\ y.obj = l.obj
      BY <3>1
    <3> QED
      BY <2>3, <3>1, <3>2 DEF Nodes
  <2>5. {y.obj : y \in BelowNode(x)} = {l.obj : l \in ls}
    <3> DEFINE node(l) == [path |-> Append(x.path, l.name), obj |-> l.obj]
    <3>1. \A l : node(l).obj = l.obj
      OBVIOUS
    <3>2. BelowNode(x) = {node(l) : l \in ls}
      BY <2>2
    <3> HIDE DEF node
    <3> QED
      BY <3>1, <3>2
  <2>6. PairsIn(BelowNode(x)) = N
    BY <2>1, <2>5 DEF PairsIn, ls, N
  <2> QED
    BY <1>3, <2>4, <2>6 DEF N
<1> QED
  BY <1>2, <1>3

\* Each round goes one step further along names.
LEMMA RoundsAre ==
  ASSUME DiskType(disk), NEW d \in Pairs, NEW g, NodeRounds(d, g)
  PROVE  /\ PairsIn(g[0]) = {d}
         /\ \A k \in 1..Cardinality(Pairs) :
              /\ PairsIn(g[k - 1]) \subseteq PairsIn(g[k])
              /\ \A o \in PairsIn(g[k - 1]) : NamedIn(o) \subseteq PairsIn(g[k])
              /\ \A p \in PairsIn(g[k]) :
                   p \in PairsIn(g[k - 1]) \/ \E o \in PairsIn(g[k - 1]) : p \in NamedIn(o)
<1> DEFINE N == Cardinality(Pairs)
<1>1. N \in Nat
  BY RootTyped, FS_CardinalityType
<1>2. /\ g \in [0..N -> SUBSET Nodes] /\ g[0] = {[path |-> <<>>, obj |-> d]}
      /\ \A k \in 1..N : g[k] = Deeper(g[k - 1], k - 1)
  BY DEF NodeRounds
<1> HIDE DEF N
<1>3. \A k \in 0..N : \A x \in g[k] : x \in Nodes /\ Len(x.path) \in Nat
  <2>1. ASSUME NEW k \in 0..N, NEW x \in g[k] PROVE x \in Nodes /\ x.path \in Seq(Names)
    BY <1>2, <2>1 DEF Nodes
  <2> QED
    BY <2>1
<1>4. ASSUME NEW k \in 1..N
      PROVE  /\ k \in 0..N /\ k - 1 \in 0..N /\ k - 1 \in Nat /\ g[k - 1] \subseteq g[k]
             /\ \A x \in g[k - 1] : Len(x.path) = k - 1 => BelowNode(x) \subseteq g[k]
             /\ \A y \in g[k] : \/ y \in g[k - 1]
                                \/ \E x \in g[k - 1] : Len(x.path) = k - 1 /\ y \in BelowNode(x)
  <2>1. k \in 0..N /\ k - 1 \in 0..N /\ k - 1 \in Nat
    BY <1>1
  <2>2. g[k] = Deeper(g[k - 1], k - 1)
    BY <1>2
  <2> HIDE DEF BelowNode
  <2> DEFINE j == k - 1
             M == g[j]
  <2>3. g[k] = M \cup UNION {BelowNode(x) : x \in {y \in M : Len(y.path) = j}}
    BY <2>2 DEF Deeper
  <2> HIDE DEF j, M
  <2>4. /\ M \subseteq g[k] /\ \A x \in M : Len(x.path) = j => BelowNode(x) \subseteq g[k]
        /\ \A y \in g[k] : y \in M \/ \E x \in M : Len(x.path) = j /\ y \in BelowNode(x)
    BY <2>3
  <2> QED
    BY <2>1, <2>4 DEF j, M
<1>5. ASSUME NEW k \in 0..N PROVE \A x \in g[k] : Len(x.path) <= k /\ x \in g[Len(x.path)]
  <2> DEFINE T == {i \in 0..N : \A x \in g[i] : Len(x.path) <= i /\ x \in g[Len(x.path)]}
  <2>1. 0 \in T
    <3>1. 0 \in 0..N
      BY <1>1
    <3>2. ASSUME NEW x \in g[0] PROVE Len(x.path) = 0
      <4>1. x.path = << >>
        BY <1>2, <3>2
      <4> QED
        BY <4>1
    <3> QED
      BY <3>1, <3>2
  <2>2. ASSUME NEW i \in 1..N, i - 1 \in T PROVE i \in T
    <3>1. ASSUME NEW x \in g[i] PROVE Len(x.path) <= i /\ x \in g[Len(x.path)]
      <4>1. CASE x \in g[i - 1]
        <5>1. Len(x.path) <= i - 1 /\ x \in g[Len(x.path)] /\ Len(x.path) \in Nat
          BY <1>3, <1>4, <2>2, <4>1
        <5> QED
          BY <5>1
      <4>2. ASSUME NEW y \in g[i - 1], Len(y.path) = i - 1, x \in BelowNode(y)
            PROVE  Len(x.path) = i
        <5>1. Len(x.path) = Len(y.path) + 1
          BY <1>3, <1>4, <4>2, BelowNodeIs
        <5> QED
          BY <1>1, <4>2, <5>1
      <4> QED
        BY <1>1, <1>4, <3>1, <4>1, <4>2
    <3> QED
      BY <1>4, <3>1
  <2> HIDE DEF T
  <2>3. 0..N \subseteq T
    BY <1>1, <2>1, <2>2, UpTo
  <2> QED
    BY <2>3 DEF T
<1>6. ASSUME NEW k \in 0..N, NEW j \in 0..k PROVE g[j] \subseteq g[k]
  <2> DEFINE T == {i \in 0..N : \A h \in 0..i : g[h] \subseteq g[i]}
  <2>1. 0 \in T
    <3>1. 0 \in 0..N /\ \A h \in 0..0 : h = 0
      BY <1>1
    <3> QED
      BY <3>1
  <2>2. ASSUME NEW i \in 1..N, i - 1 \in T PROVE i \in T
    <3>1. ASSUME NEW h \in 0..i PROVE g[h] \subseteq g[i]
      <4>1. h = i \/ h \in 0..(i - 1)
        BY <1>1
      <4> QED
        BY <1>4, <2>2, <4>1
    <3> QED
      BY <1>4, <3>1
  <2> HIDE DEF T
  <2>3. 0..N \subseteq T
    BY <1>1, <2>1, <2>2, UpTo
  <2> QED
    BY <2>3 DEF T
<1>7. PairsIn(g[0]) = {d}
  BY <1>2 DEF PairsIn
<1>8. ASSUME NEW k \in 1..N, NEW o \in PairsIn(g[k - 1]) PROVE NamedIn(o) \subseteq PairsIn(g[k])
  <2>1. PICK x \in g[k - 1] : x.obj = o /\ o \in Pairs
    BY <1>8 DEF PairsIn
  <2> DEFINE j == Len(x.path)
  <2>2. x \in Nodes /\ j \in Nat /\ j <= k - 1 /\ x \in g[j]
    BY <1>3, <1>4, <1>5, <2>1
  <2> HIDE DEF j
  <2>3. j + 1 \in 1..N /\ (j + 1) - 1 = j /\ j + 1 \in 0..k /\ k \in 0..N
    BY <1>1, <2>2
  <2>4. BelowNode(x) \subseteq g[j + 1]
    BY <1>4, <2>2, <2>3 DEF j
  <2>5. BelowNode(x) \subseteq g[k]
    BY <1>6, <2>3, <2>4
  <2>6. PairsIn(BelowNode(x)) = NamedIn(o)
    BY <2>1, <2>2, BelowNodeIs
  <2> HIDE DEF BelowNode
  <2> QED
    BY <2>5, <2>6 DEF PairsIn
<1>9. ASSUME NEW k \in 1..N, NEW p \in PairsIn(g[k])
      PROVE  p \in PairsIn(g[k - 1]) \/ \E o \in PairsIn(g[k - 1]) : p \in NamedIn(o)
  <2>1. PICK y \in g[k] : y.obj = p /\ p \in Pairs
    BY <1>9 DEF PairsIn
  <2>2. CASE y \in g[k - 1]
    BY <2>1, <2>2 DEF PairsIn
  <2>3. ASSUME NEW x \in g[k - 1], y \in BelowNode(x)
        PROVE  \E o \in PairsIn(g[k - 1]) : p \in NamedIn(o)
    <3>1. x \in Nodes
      BY <1>3, <1>4, <2>3
    <3>2. p \in PairsIn(BelowNode(x))
      BY <2>1, <2>3 DEF PairsIn
    <3>3. x.obj \in Pairs /\ p \in NamedIn(x.obj)
      BY <3>1, <3>2, BelowNodeIs
    <3> QED
      BY <2>3, <3>3 DEF PairsIn
  <2> QED
    BY <1>4, <2>2, <2>3
<1>10. ASSUME NEW k \in 1..N PROVE PairsIn(g[k - 1]) \subseteq PairsIn(g[k])
  BY <1>4 DEF PairsIn
<1> QED
  BY <1>7, <1>8, <1>9, <1>10 DEF N

\* The first pairs of the directories that names lead to.
LEMMA UnderIs ==
  ASSUME DiskType(disk), NEW d \in Pairs
  PROVE  /\ d \in Under(d) /\ Under(d) \in SUBSET Pairs
         /\ \A o \in Under(d) : NamedIn(o) \subseteq Under(d)
         /\ \A T \in SUBSET Pairs : d \in T /\ (\A o \in T : NamedIn(o) \subseteq T) => Under(d) \subseteq T
<1> DEFINE N == Cardinality(Pairs)
<1>1. N \in Nat
  BY RootTyped, FS_CardinalityType
<1>2. PICK g : NodeRounds(d, g)
  BY NodesFromIs
<1> DEFINE R(k) == PairsIn(g[k])
           Closed(k) == \A o \in R(k) : NamedIn(o) \subseteq R(k)
<1>3. Under(d) = R(N)
  BY <1>2 DEF NodeRounds, Under, PairsIn
<1>4. R(0) = {d}
  BY <1>2, RoundsAre
<1>5. ASSUME NEW k \in 1..N
      PROVE  /\ R(k - 1) \subseteq R(k) /\ \A o \in R(k - 1) : NamedIn(o) \subseteq R(k)
             /\ \A p \in R(k) : p \in R(k - 1) \/ \E o \in R(k - 1) : p \in NamedIn(o)
  BY <1>2, RoundsAre
<1>6. \A k : R(k) \in SUBSET Pairs
  BY DEF PairsIn
<1> HIDE DEF R, N
<1>7. N \in 0..N
  BY <1>1
<1>8. d \in R(N)
  <2> DEFINE T == {k \in 0..N : d \in R(k)}
  <2>1. 0 \in T
    BY <1>1, <1>4
  <2>2. ASSUME NEW k \in 1..N, k - 1 \in T PROVE k \in T
    BY <1>1, <1>5, <2>2
  <2> HIDE DEF T
  <2>3. 0..N \subseteq T
    BY <1>1, <2>1, <2>2, UpTo
  <2> QED
    BY <1>7, <2>3 DEF T
<1>9. Closed(N)
  <2> DEFINE T == {k \in 0..N : Closed(k) \/ k + 1 <= Cardinality(R(k))}
  <2>1. 0 \in T
    <3>1. Cardinality(R(0)) = 1
      BY <1>4, FS_Singleton
    <3> QED
      BY <1>1, <3>1
  <2>2. ASSUME NEW k \in 1..N, k - 1 \in T PROVE k \in T
    <3>1. k \in 0..N /\ k \in Nat
      BY <1>1
    <3>2. CASE Closed(k - 1)
      <4>1. R(k) = R(k - 1)
        BY <1>5, <3>2
      <4> QED
        BY <3>1, <3>2, <4>1
    <3>3. CASE ~Closed(k - 1)
      <4>1. (k - 1) + 1 <= Cardinality(R(k - 1))
        BY <2>2, <3>3
      <4>2. R(k - 1) # R(k) /\ R(k - 1) \in SUBSET R(k)
        BY <1>5, <3>3
      <4> DEFINE m == Cardinality(R(k - 1))
                 n == Cardinality(R(k))
      <4>3. m < n /\ m \in Nat /\ n \in Nat
        BY <1>6, <4>2, Less
      <4> HIDE DEF m, n
      <4>4. k + 1 <= n
        BY <3>1, <4>1, <4>3 DEF m
      <4> QED
        BY <3>1, <4>4 DEF n
    <3> QED
      BY <3>2, <3>3
  <2> HIDE DEF T
  <2>3. 0..N \subseteq T
    BY <1>1, <2>1, <2>2, UpTo
  <2>4. Closed(N) \/ N + 1 <= Cardinality(R(N))
    BY <1>7, <2>3 DEF T
  <2> DEFINE n == Cardinality(R(N))
  <2>5. n \in Nat /\ n <= N
    BY <1>6, RootTyped, FS_Subset, FS_CardinalityType DEF N
  <2> HIDE DEF n
  <2> QED
    BY <1>1, <2>4, <2>5 DEF n
<1>10. ASSUME NEW U \in SUBSET Pairs, d \in U, \A o \in U : NamedIn(o) \subseteq U PROVE R(N) \subseteq U
  <2> DEFINE T == {k \in 0..N : R(k) \subseteq U}
  <2>1. 0 \in T
    BY <1>1, <1>4, <1>10
  <2>2. ASSUME NEW k \in 1..N, k - 1 \in T PROVE k \in T
    BY <1>1, <1>5, <1>10, <2>2
  <2> HIDE DEF T
  <2>3. 0..N \subseteq T
    BY <1>1, <2>1, <2>2, UpTo
  <2> QED
    BY <1>7, <2>3 DEF T
<1> QED
  BY <1>3, <1>6, <1>8, <1>9, <1>10

\* All pairs that names lead to are those a directory owns.
LEMMA DirectoriesOwned ==
  ASSUME DiskType(disk), NEW d \in Pairs
  PROVE  UNION {WalkOf(disk, o, TRUE) : o \in Under(d)} = OwnedFrom(disk, gdisk.moves, d)
<1> DEFINE U == UNION {WalkOf(disk, o, TRUE) : o \in Under(d)}
           O == OwnedFrom(disk, gdisk.moves, d)
<1>1. \A p \in Pairs : disk[p].tail \in Pairs \cup {NoPair}
  BY DiskTyped
<1>2. /\ d \in Under(d) /\ Under(d) \in SUBSET Pairs
      /\ \A o \in Under(d) : NamedIn(o) \subseteq Under(d)
      /\ \A T \in SUBSET Pairs : d \in T /\ (\A o \in T : NamedIn(o) \subseteq T) => Under(d) \subseteq T
  BY UnderIs
<1> HIDE DEF Under
<1>3. ASSUME NEW o \in Pairs
      PROVE  /\ o \in WalkOf(disk, o, TRUE) /\ WalkOf(disk, o, TRUE) \subseteq Pairs
             /\ TailsIn(disk, TRUE, WalkOf(disk, o, TRUE))
  BY <1>1, WalkClosed
<1>4. /\ d \in O /\ O \in SUBSET Pairs /\ TailsIn(disk, TRUE, O) /\ NamesIn(disk, gdisk.moves, O)
  BY <1>1, OwnedClosed
<1>5. U \subseteq O
  <2> HIDE DEF O
  <2>1. ASSUME NEW o \in O PROVE WalkOf(disk, o, TRUE) \subseteq O
    BY <1>4, WalkLeast
  <2>2. ASSUME NEW o \in O PROVE NamedIn(o) \subseteq O
    BY <1>4, <2>1 DEF NamedIn, NamesIn
  <2>3. Under(d) \subseteq O
    BY <1>2, <1>4, <2>2
  <2> QED
    BY <2>1, <2>3
<1>6. O \subseteq U
  <2>1. U \in SUBSET Pairs /\ d \in U
    <3>1. d \in WalkOf(disk, d, TRUE)
      BY <1>3
    <3>2. \A o \in Under(d) : WalkOf(disk, o, TRUE) \subseteq Pairs
      BY <1>2, <1>3
    <3>3. d \in U
      BY <1>2, <3>1
    <3>4. \A q \in U : q \in Pairs
      BY <3>2
    <3> HIDE DEF U
    <3> QED
      BY <3>3, <3>4
  <2>2. TailsIn(disk, TRUE, U)
    <3>1. ASSUME NEW q \in U, disk[q].split, disk[q].tail # NoPair PROVE disk[q].tail \in U
      <4>1. PICK o \in Under(d) : q \in WalkOf(disk, o, TRUE)
        BY <3>1
      <4>2. disk[q].tail \in WalkOf(disk, o, TRUE)
        BY <1>2, <1>3, <3>1, <4>1 DEF TailsIn
      <4> QED
        BY <4>2
    <3> HIDE DEF U
    <3> QED
      BY <3>1 DEF TailsIn
  <2>3. NamesIn(disk, gdisk.moves, U)
    <3>1. ASSUME NEW q \in U, NEW p \in Below(disk, gdisk.moves, q) PROVE p \in U
      <4>1. PICK o \in Under(d) : q \in WalkOf(disk, o, TRUE)
        BY <3>1
      <4>2. p \in NamedIn(o)
        BY <3>1, <4>1 DEF NamedIn
      <4>3. p \in Under(d)
        BY <1>2, <4>1, <4>2
      <4> QED
        BY <1>2, <1>3, <4>3
    <3> HIDE DEF U
    <3> QED
      BY <3>1 DEF NamesIn
  <2> HIDE DEF U
  <2> QED
    BY <2>1, <2>2, <2>3, OwnedLeast
<1> QED
  BY <1>5, <1>6

LEMMA DirectoriesAre ==
  ASSUME DiskType(disk)
  PROVE  Directories = Owned(disk, gdisk.moves)
<1>1. Under(Root) \in SUBSET Pairs
  BY RootTyped, UnderIs
<1>2. \A o \in Pairs : Chain(o) = WalkOf(disk, o, TRUE)
  BY WalkIs DEF Chain
<1>3. Directories = UNION {WalkOf(disk, o, TRUE) : o \in Under(Root)}
  BY <1>1, <1>2 DEF Directories, Reached
<1> QED
  BY <1>3, RootTyped, DirectoriesOwned DEF Owned

LEMMA HeadsUnder ==
  ASSUME DiskType(disk), Named(disk), NEW d \in ListOf(disk), NEW o \in Under(d)
  PROVE  o \in ListOf(disk) /\ (o = d \/ HeadIn(disk, o))
<1> DEFINE T == {p \in ListOf(disk) : p = d \/ HeadIn(disk, p)}
<1>1. ListOf(disk) \subseteq Pairs
  BY ListClosed
<1>2. T \in SUBSET Pairs /\ d \in T
  BY <1>1
<1>3. ASSUME NEW x \in T, NEW p \in NamedIn(x) PROVE p \in T
  <2>1. PICK q \in WalkOf(disk, x, TRUE) : p \in Below(disk, gdisk.moves, q)
    BY DEF NamedIn
  <2>2. q \in ListOf(disk)
    BY <2>1, WalkListed
  <2>3. p \in ListOf(disk) /\ HeadIn(disk, p)
    BY <2>1, <2>2 DEF Below, Named
  <2> QED
    BY <2>3
<1> HIDE DEF T
<1>4. Under(d) \subseteq T
  BY <1>1, <1>2, <1>3, UnderIs
<1> QED
  BY <1>4 DEF T

\* A directory that is not below another has no pair below it.
LEMMA NotBelow ==
  ASSUME DiskType(disk), Threaded(disk), Named(disk),
         NEW d \in Reached, NEW o \in ListOf(disk), HeadIn(disk, o), d \notin Under(o),
         NEW p \in WalkOf(disk, d, TRUE)
  PROVE  p \notin OwnedFrom(disk, gdisk.moves, o)
<1>1. Root \in ListOf(disk) /\ ListOf(disk) \subseteq Pairs
  BY ListClosed
<1>2. \A x \in ListOf(disk) : x = Root \/ HeadIn(disk, x) => Begins(disk, x)
  BY DEF HeadIn, Begins, Threaded
<1>3. d \in ListOf(disk) /\ Begins(disk, d)
  <2>1. d \in ListOf(disk) /\ (d = Root \/ HeadIn(disk, d))
    BY <1>1, HeadsUnder DEF Reached
  <2> QED
    BY <1>2, <2>1
<1>4. SUFFICES ASSUME p \in OwnedFrom(disk, gdisk.moves, o) PROVE FALSE
  OBVIOUS
<1>5. PICK x \in Under(o) : p \in WalkOf(disk, x, TRUE)
  <2>1. UNION {WalkOf(disk, x, TRUE) : x \in Under(o)} = OwnedFrom(disk, gdisk.moves, o)
    BY <1>1, DirectoriesOwned
  <2> QED
    BY <1>4, <2>1
<1>6. x \in ListOf(disk) /\ Begins(disk, x)
  <2>1. x \in ListOf(disk) /\ (x = o \/ HeadIn(disk, x))
    BY HeadsUnder
  <2> QED
    BY <1>2, <2>1
<1>7. x = d
  BY <1>3, <1>5, <1>6, HeadsApart
<1> QED
  BY <1>5, <1>7
-----------------------------------------------------------------------------
(* The inductive invariant *)

Undisturbed == MaxRelocs = 0 /\ MaxFails = 0

\* Without relocations and errors.
Calm ==
  /\ gdelta = Zero /\ reloc = None /\ kin = {} /\ relocs = 0 /\ fails = 0
  /\ found \in Nat

GlobalOK == gstate \in States /\ gdisk \in States /\ gstate.moves = gdisk.moves

Orphaned == OrphansOf(disk, gdisk.moves)
L == ListOf(disk)

\* A new directory that is not linked yet, behind pair p.
NewBehind(n, p) ==
  /\ p \in L /\ ~disk[p].split
  /\ n \in Pairs /\ n \notin L /\ EmptyIn(disk, n)
  /\ disk[n].tail = disk[p].tail
  /\ disk[n].delta.moves = {}
At(e) == e[1] \in L /\ e[2] \in 1..(Len(disk[e[1]].entries) + 1)

\* Where the running operation is.
PcOK ==
  \/ /\ pc \in {"idle", "demove", "deorphan"}
     /\ Orphaned # {} => gstate.orphans > 0 /\ gdisk.orphans > 0
     /\ pc = "deorphan" => gdisk.moves = {}
  \/ pc = "ready" /\ gdisk.moves = {} /\ Orphaned = {}
  \/ /\ pc = "mkdir_pred" /\ gdisk.moves = {} /\ Orphaned = {}
     /\ At(op.at) /\ disk[op.at[1]].split /\ op.name \in Names
     /\ NewBehind(op.new, op.pred)
  \/ /\ pc = "mkdir_parent" /\ gdisk.moves = {}
     /\ At(op.at) /\ op.name \in Names
     /\ \/ disk[op.at[1]].split /\ Orphaned = {op.new} /\ gdisk.orphans > 0
        \/ Orphaned = {} /\ NewBehind(op.new, op.at[1])
  \/ /\ pc = "unlink" /\ gdisk.moves = {} /\ gdisk.orphans > 0
     /\ Orphaned = op.dirs /\ \E o \in Pairs : op.dirs = {o}
  \/ /\ pc = "delete_source" /\ gdisk.moves = {op.at}
     /\ Orphaned = op.dirs
     /\ \/ op.dirs = {}
        \/ gstate.orphans > 0 /\ gdisk.orphans > 0 /\ \E o \in Pairs : op.dirs = {o}

Sum == GatherOf(disk, L \cup New) = Masked(gdisk)

IInv == Calm /\ GlobalOK /\ Shape(disk, gdisk.moves) /\ PcOK /\ Sum

\* Without relocations, what the code looks up is what the disk says.
LEMMA Quiet ==
  ASSUME kin = {}, DiskType(disk)
  PROVE  /\ List = L /\ \A p \in Pairs : Chain(p) = WalkOf(disk, p, TRUE)
         /\ \A p : Preds(p) = {q \in L : disk[q].tail = p}
         /\ \A ps : Gathered(ps) = GatherOf(disk, ps)
         /\ \A p : \A e \in Parents(p) : Obj(e) = p
<1>1. \A p, q : Same(p, q) <=> p = q
  BY DEF Same
<1>2. List = L
  BY RootTyped, WalkIs DEF List, L, ListOf
<1>3. \A p : Preds(p) = {q \in L : disk[q].tail = p}
  BY <1>1, <1>2 DEF Preds
<1>4. \A p \in Pairs : Chain(p) = WalkOf(disk, p, TRUE)
  BY WalkIs DEF Chain
<1>5. \A ps : Gathered(ps) = GatherOf(disk, ps)
  BY DEF Gathered, GatherOf
<1>6. \A p : \A e \in Parents(p) : Obj(e) = p
  BY <1>1 DEF Parents
<1> QED
  BY <1>2, <1>3, <1>4, <1>5, <1>6

LEMMA NoHalves ==
  ASSUME kin = {}, DiskType(disk)
  PROVE  HalfOrphans = {} /\ HalfLinks = {}
<1>1. \A p : \A e \in Parents(p) : Obj(e) = p
  BY Quiet
<1>2. HalfOrphans = {}
  BY <1>1 DEF HalfOrphans
<1>3. HalfLinks = {}
  BY <1>1 DEF HalfLinks
<1> QED
  BY <1>2, <1>3

LEMMA FullOrphansAre ==
  ASSUME kin = {}, Shape(disk, gdisk.moves)
  PROVE  FullOrphans = Orphaned
<1> DEFINE mv == gdisk.moves
<1>1. DiskType(disk) /\ Named(disk) /\ L \subseteq Pairs /\ Root \in L
  BY ListClosed DEF Shape, L
<1>2. List = L /\ \A p : Preds(p) = {q \in L : disk[q].tail = p}
  BY <1>1, Quiet
<1>3. \A p : IsHead(p) <=> p # Root /\ \A q \in L : disk[q].tail = p => ~disk[q].split
  BY <1>2 DEF IsHead
<1>4. \A p, q : Same(p, q) <=> p = q
  BY DEF Same
<1>5. ASSUME NEW p \in Pairs
      PROVE  Parents(p) = {} <=> \A q \in L : p \notin Below(disk, mv, q)
  <2>1. ASSUME NEW q \in L, p \in Below(disk, mv, q) PROVE Parents(p) # {}
    <3>1. PICK i \in DOMAIN disk[q].entries : <<q, i>> \notin mv /\ disk[q].entries[i].obj = p
      BY <2>1 DEF Below
    <3>2. <<q, i>> \in Shown(q) /\ Obj(<<q, i>>) = p
      BY <3>1 DEF Shown, Entries, Obj
    <3> QED
      BY <1>2, <1>4, <3>2 DEF Parents
  <2>2. ASSUME NEW e \in Parents(p) PROVE \E q \in L : p \in Below(disk, mv, q)
    <3>1. PICK q \in L : e \in Shown(q)
      BY <1>2 DEF Parents
    <3>2. Obj(e) = p
      BY <1>4 DEF Parents
    <3>3. PICK i \in DOMAIN disk[q].entries : e = <<q, i>>
      BY <3>1 DEF Shown, Entries
    <3>4. disk[q].entries[i].obj = p
      BY <3>2, <3>3 DEF Obj
    <3> QED
      BY <3>1, <3>3, <3>4 DEF Below, Shown
  <2> QED
    BY <2>1, <2>2
<1>6. Orphaned = L \ Owned(disk, mv)
  BY DEF Orphaned, OrphansOf, L
<1> HIDE DEF mv
<1>7. ASSUME NEW p \in L, p \notin Owned(disk, mv) PROVE IsHead(p) /\ Parents(p) = {}
  <2>1. Shape(disk, mv)
    BY DEF mv
  <2>2. \A q \in L : disk[q].split \/ disk[q].entries # <<>> => q \in Owned(disk, mv)
    BY <2>1, OrphanAlone DEF L
  <2>3. ASSUME NEW q \in L, disk[q].tail = p, disk[q].split PROVE FALSE
    <3>1. p # NoPair
      BY <1>1, RootTyped
    <3> QED
      BY <1>1, <1>7, <2>2, <2>3, <3>1, OwnedIs
  <2>4. ASSUME NEW q \in L, p \in Below(disk, mv, q) PROVE FALSE
    <3>1. disk[q].entries # <<>>
      <4>1. PICK i \in DOMAIN disk[q].entries : disk[q].entries[i].obj = p
        BY <2>4 DEF Below
      <4> QED
        BY <1>1, EntryPlace
    <3> QED
      BY <1>1, <1>7, <2>2, <2>4, <3>1, OwnedIs
  <2>5. p # Root
    BY <1>1, <1>7, OwnedIs
  <2> QED
    BY <1>1, <1>3, <1>5, <2>3, <2>4, <2>5
<1>8. ASSUME NEW p \in L, IsHead(p), Parents(p) = {} PROVE p \notin Owned(disk, mv)
  <2> DEFINE U == L \ {p}
  <2>1. U \in SUBSET Pairs /\ Root \in U /\ p \notin U
    BY <1>1, <1>3, <1>8
  <2>2. ASSUME NEW q \in U, disk[q].split, disk[q].tail # NoPair PROVE disk[q].tail \in U
    BY <1>1, <1>3, <1>8, <2>2, ListClosed DEF L
  <2>3. ASSUME NEW q \in U, NEW o \in Below(disk, mv, q) PROVE o \in U
    <3>1. o \in L
      BY <1>1, <2>3 DEF Below, Named, L
    <3> QED
      BY <1>1, <1>5, <1>8, <2>3, <3>1
  <2> HIDE DEF U
  <2> QED
    BY <2>1, <2>2, <2>3, OwnedWithin
<1> QED
  BY <1>2, <1>6, <1>7, <1>8 DEF FullOrphans

\* What the properties say of a state.
LEMMA MountFinds == ASSUME IInv PROVE MountFindsGstate
<1>1. kin = {} /\ DiskType(disk)
  BY DEF IInv, Calm, Shape
<1> QED
  BY <1>1, Quiet DEF IInv, Sum, MountFindsGstate

LEMMA ListComplete == ASSUME IInv PROVE ListIsComplete
<1>1. kin = {} /\ DiskType(disk) /\ Named(disk)
  BY DEF IInv, Calm, Shape
<1>2. Owned(disk, gdisk.moves) \subseteq L
  BY <1>1, OwnedListed DEF L
<1> QED
  BY <1>1, <1>2, Quiet, DirectoriesAre DEF ListIsComplete

\* Where there is an orphan nothing is written that is not on the list.
LEMMA NothingNew ==
  ASSUME IInv, Orphaned # {}
  PROVE  L \cup New = L /\ gdisk.orphans > 0
<1>1. Orphaned \subseteq L
  BY DEF Orphaned, OrphansOf, L
<1> QED
  BY <1>1 DEF IInv, PcOK, New

LEMMA Announced == ASSUME IInv PROVE OrphansAnnounced
<1>1. kin = {} /\ DiskType(disk) /\ Shape(disk, gdisk.moves)
  BY DEF IInv, Calm, Shape
<1>2. HalfOrphans = {} /\ FullOrphans = Orphaned
  BY <1>1, NoHalves, FullOrphansAre
<1>3. ASSUME Orphaned # {} PROVE Gathered(List).orphan
  <2>1. GatherOf(disk, L) = Masked(gdisk)
    BY <1>3, NothingNew DEF IInv, Sum
  <2>2. Gathered(List) = Masked(gdisk)
    BY <1>1, <2>1, Quiet
  <2>3. gdisk.orphans > 0
    BY <1>3, NothingNew
  <2>4. Masked(gdisk).orphan
    BY <2>3 DEF Masked
  <2> QED
    BY <2>2, <2>4
<1>4. \A p \in Orphaned : IsEmptyDir(p)
  BY <1>1 DEF Shape, OrphansEmpty, Orphaned, EmptyIn, IsEmptyDir
<1> QED
  BY <1>2, <1>3, <1>4 DEF OrphansAnnounced

LEMMA RepairComplete == ASSUME IInv PROVE RepairIsComplete
<1>1. kin = {} /\ DiskType(disk) /\ Named(disk)
  BY DEF IInv, Calm, Shape
<1>2. Owned(disk, gdisk.moves) \subseteq L
  BY <1>1, OwnedListed DEF L
<1>3. ASSUME pc = "ready" PROVE gdisk.moves = {} /\ Orphaned = {}
  BY <1>3 DEF IInv, PcOK
<1>4. ASSUME pc = "ready" PROVE List = Directories
  <2>1. List = L /\ Directories = Owned(disk, gdisk.moves)
    BY <1>1, Quiet, DirectoriesAre
  <2>2. L \ Owned(disk, gdisk.moves) = {}
    BY <1>3, <1>4 DEF Orphaned, OrphansOf, L
  <2> QED
    BY <1>2, <2>1, <2>2
<1> QED
  BY <1>1, <1>3, <1>4, NoHalves DEF RepairIsComplete

-----------------------------------------------------------------------------
(* Commits *)

LEMMA XorCancels == \A a, b, c \in Deltas : Xor(Xor(a, c), Xor(Xor(b, a), c)) = b
<1> SUFFICES ASSUME NEW a \in Deltas, NEW b \in Deltas, NEW c \in Deltas
             PROVE  Xor(Xor(a, c), Xor(Xor(b, a), c)) = b
  OBVIOUS
<1> DEFINE e == Xor(a, c)
<1>1. e \in Deltas /\ Xor(b, e) \in Deltas
  BY XorTyped
<1>2. Xor(Xor(b, a), c) = Xor(b, e)
  BY XorAssoc
<1> HIDE DEF e
<1>3. Xor(e, Xor(b, e)) = b
  BY <1>1, XorSwap, XorTwice
<1> QED
  BY <1>2, <1>3 DEF e

LEMMA ChangeTyped ==
  ASSUME gdisk \in States, NEW g \in States, NEW gd \in Deltas
  PROVE  /\ Masked(gdisk) \in Deltas /\ Masked(g) \in Deltas /\ Change(g, gd) \in Deltas
         /\ Xor(Xor(Masked(gdisk), gd), Change(g, gd)) = Masked(g)
BY MaskedTyped, XorTyped, XorCancels DEF Change

\* What pair p of the disk is after a commit that does not split it.
Updated(p, es, t, sp, g, gd) ==
  [disk EXCEPT ![p] = Content(Xor(disk[p].delta, Change(g, gd)), es, t, sp)]

LEMMA UpdatedTyped ==
  ASSUME DiskType(disk), gdisk \in States, NEW g \in States, NEW gd \in Deltas,
         NEW p \in Pairs, NEW es \in Seq(EntryType), NEW t \in Pairs \cup {NoPair}, NEW sp \in BOOLEAN
  PROVE  /\ DiskType(Updated(p, es, t, sp, g, gd))
         /\ Updated(p, es, t, sp, g, gd)[p] = Content(Xor(disk[p].delta, Change(g, gd)), es, t, sp)
         /\ \A r \in Pairs \ {p} : Updated(p, es, t, sp, g, gd)[r] = disk[r]
<1>1. Xor(disk[p].delta, Change(g, gd)) \in Deltas
  BY DiskTyped, ChangeTyped, XorTyped
<1> DEFINE c == Content(Xor(disk[p].delta, Change(g, gd)), es, t, sp)
<1>2. c \in PairType
  BY <1>1 DEF Content, PairType
<1> HIDE DEF c
<1> QED
  BY <1>2 DEF Updated, DiskType, c

\* Whatever is not committed to stays.
Beside(D, p) ==
  /\ ListOf(D) \subseteq ListOf(disk')
  /\ \A r \in ListOf(D) \ {p} : disk'[r].entries = D[r].entries /\ disk'[r].split = D[r].split
AddsUp(g) == GatherOf(disk', ListOf(disk')) = Masked(g)

LEMMA Written ==
  ASSUME kin = {}, DiskType(disk), gdisk \in States, NEW g \in States, NEW gd \in Deltas,
         NEW p \in Pairs, NEW es, NEW t, NEW sp,
         NEW D, D = Updated(p, es, t, sp, g, gd), Shape(D, g.moves), p \in ListOf(D),
         \A m \in g.moves : m[1] # p, ListOf(D) \subseteq Used,
         GatherOf(disk, ListOf(D)) = Xor(Masked(gdisk), gd),
         Write(p, es, t, sp, g, gd)
  PROVE  /\ Shape(disk', g.moves) /\ OrphansOf(disk', g.moves) = OrphansOf(D, g.moves)
         /\ Beside(D, p) /\ AddsUp(g)
         /\ gdisk' = g /\ gdelta' = Zero /\ kin' = {} /\ relocs' = relocs /\ fails' = fails
<1> DEFINE S == ListOf(D)
           c == Change(g, gd)
<1>1. c \in Deltas /\ Xor(Xor(Masked(gdisk), gd), c) = Masked(g)
  BY ChangeTyped
<1>2. DiskType(D) /\ S \subseteq Pairs /\ S \in SUBSET Pairs
  BY ListClosed DEF Shape
<1>3. /\ D[p] = Content(Xor(disk[p].delta, c), es, t, sp)
      /\ \A r \in Pairs \ {p} : D[r] = disk[r]
  BY DEF Updated, DiskType
<1>4. gdisk' = g /\ gdelta' = Zero /\ relocs' = relocs /\ fails' = fails
  BY DEF Write
<1> HIDE DEF c
<1>5. CASE disk' = D /\ UNCHANGED kin
  <2>1. D[p].delta = Xor(disk[p].delta, c) /\ \A q \in S \ {p} : D[q].delta = disk[q].delta
    BY <1>2, <1>3 DEF Content
  <2>2. GatherOf(D, S) = Xor(GatherOf(disk, S), c)
    BY <1>1, <1>2, <2>1, GatherChanged
  <2>3. AddsUp(g)
    BY <1>1, <1>5, <2>2 DEF AddsUp
  <2> QED
    BY <1>4, <1>5, <2>3 DEF Beside
<1>6. ASSUME NEW q \in FreePairs, NEW k \in 1..(Len(es) - 1),
             disk' = [disk EXCEPT ![q] = Content(c, SubSeq(es, k + 1, Len(es)), t, sp),
                                  ![p] = Content(disk[p].delta, SubSeq(es, 1, k), q, TRUE)],
             kin' = KinWithout(q)
      PROVE  /\ Shape(disk', g.moves) /\ OrphansOf(disk', g.moves) = OrphansOf(D, g.moves)
             /\ Beside(D, p) /\ AddsUp(g) /\ kin' = {}
  <2> DEFINE E == disk'
  <2>1. q \in Pairs /\ q \notin S /\ q # p
    BY <1>6 DEF FreePairs
  <2>2. /\ E[p] = Content(disk[p].delta, SubSeq(es, 1, k), q, TRUE)
        /\ E[q] = Content(c, SubSeq(es, k + 1, Len(es)), t, sp)
        /\ \A r \in Pairs \ {p, q} : E[r] = D[r] /\ E[r] = disk[r]
        /\ E = [r \in Pairs |-> E[r]]
    BY <1>3, <1>6, <2>1 DEF DiskType
  <2>3. /\ D[p].entries = es /\ D[p].tail = t /\ D[p].split = sp
        /\ es \in Seq(EntryType) /\ t \in Pairs \cup {NoPair} /\ sp \in BOOLEAN
    <3>1. D[p].entries = es /\ D[p].tail = t /\ D[p].split = sp
      BY <1>3 DEF Content
    <3> QED
      BY <1>2, <3>1, DiskTyped
  <2>4. SubSeq(es, 1, k) \in Seq(EntryType) /\ SubSeq(es, k + 1, Len(es)) \in Seq(EntryType)
    <3>1. Len(es) \in Nat /\ k \in Nat /\ k + 1 \in 1..(Len(es) + 1) /\ k \in 0..Len(es)
      BY <2>3
    <3>2. \A i \in 1..Len(es) : es[i] \in EntryType
      BY <2>3
    <3> QED
      BY <2>3, <3>1, <3>2, SubSeqProperties
  <2>5. E[p] \in PairType /\ E[q] \in PairType
    <3>1. disk[p].delta \in Deltas
      BY DiskTyped
    <3> QED
      BY <1>1, <2>1, <2>2, <2>3, <2>4, <3>1 DEF PairType, Content
  <2> HIDE DEF E
  <2>6. DiskType(E)
    BY <2>2, <2>5 DEF DiskType
  <2>7. ReadsAs(E, D, S \ {p})
    BY <1>2, <2>1, <2>2 DEF ReadsAs
  <2>8. /\ E[p].entries = SubSeq(D[p].entries, 1, k) /\ E[p].tail = q /\ E[p].split = TRUE
        /\ E[q].entries = SubSeq(D[p].entries, k + 1, Len(D[p].entries))
        /\ E[q].tail = D[p].tail /\ E[q].split = D[p].split
        /\ E[q].delta = c /\ E[p].delta = disk[p].delta
    BY <2>2, <2>3 DEF Content
  <2>9. k \in 1..(Len(D[p].entries) - 1)
    BY <2>3
  <2>10. /\ Shape(E, g.moves) /\ ListOf(E) = S \cup {q}
         /\ OrphansOf(E, g.moves) = OrphansOf(D, g.moves)
    <3>1. Splits(D, E, p, q, k)
      BY <2>6, <2>7, <2>8, <2>9 DEF Splits
    <3>2. Apart(D, E, g.moves, q)
      BY <2>1, <3>1, Parted
    <3> QED
      BY <3>2 DEF Apart
  <2>11. GatherOf(E, S \cup {q}) = Xor(GatherOf(E, S), c)
    BY <1>2, <2>1, <2>6, <2>8, GatherAdd
  <2>12. GatherOf(E, S) = GatherOf(disk, S)
    <3>1. \A r \in S : E[r].delta = disk[r].delta
      BY <1>2, <2>1, <2>2, <2>8
    <3> QED
      BY <3>1, GatherSame
  <2>13. GatherOf(E, ListOf(E)) = Masked(g)
    BY <1>1, <2>10, <2>11, <2>12
  <2>14. \A r \in S \ {p} : E[r].entries = D[r].entries /\ E[r].split = D[r].split
    BY <2>7 DEF ReadsAs
  <2>15. kin' = {}
    BY <1>6 DEF KinWithout
  <2> QED
    BY <2>10, <2>13, <2>14, <2>15 DEF E, Beside, AddsUp
<1> QED
  BY <1>4, <1>5, <1>6 DEF Write, Updated, c

\* A commit is through.
Through(g, less, X) ==
  /\ Shape(disk', g.moves) /\ OrphansOf(disk', g.moves) = X /\ AddsUp(g)
  /\ gdisk' = g /\ gstate' = Orphans(g, g.orphans - less)
  /\ gdelta' = Zero /\ kin' = {} /\ reloc' = None /\ relocs' = 0 /\ fails' = 0

LEMMA Committed ==
  ASSUME Undisturbed, Calm, DiskType(disk), gdisk \in States, NEW g \in States, NEW gd \in Deltas,
         NEW p \in Pairs, NEW es, NEW t, NEW sp, NEW less,
         NEW D, D = Updated(p, es, t, sp, g, gd), Shape(D, g.moves), p \in ListOf(D),
         \A m \in g.moves : m[1] # p, ListOf(D) \subseteq Used,
         GatherOf(disk, ListOf(D)) = Xor(Masked(gdisk), gd),
         Commit(p, es, t, sp, g, gd, less)
  PROVE  Through(g, less, OrphansOf(D, g.moves)) /\ Beside(D, p)
<1>1. kin = {} /\ relocs = 0 /\ fails = 0 /\ reloc = None /\ MaxRelocs = 0
  BY DEF Calm, Undisturbed
<1>2. ~Relocate(p, es, t, sp, g, gd, FALSE, less)
  BY <1>1 DEF Relocate
<1>3. Write(p, es, t, sp, g, gd) /\ gstate' = Orphans(g, g.orphans - less) /\ reloc' = reloc
  BY <1>2 DEF Commit
<1> HIDE DEF Through
<1>4. /\ Shape(disk', g.moves) /\ OrphansOf(disk', g.moves) = OrphansOf(D, g.moves)
      /\ Beside(D, p) /\ AddsUp(g)
      /\ gdisk' = g /\ gdelta' = Zero /\ kin' = {} /\ relocs' = relocs /\ fails' = fails
  BY <1>1, <1>3, Written
<1> QED
  BY <1>1, <1>3, <1>4 DEF Through

\* All that is written is on the list, and nothing else disturbs the disk.
Still ==
  /\ Undisturbed /\ Calm /\ GlobalOK /\ DiskType(disk)
  /\ GatherOf(disk, L) = Masked(gdisk)

LEMMA ListUsed == ASSUME kin = {}, DiskType(disk) PROVE L \cup New \subseteq Used
<1>1. List = L
  BY Quiet
<1> QED
  BY <1>1 DEF Used, InFlight

LEMMA StillIs ==
  ASSUME Still
  PROVE  /\ Undisturbed /\ Calm /\ kin = {} /\ gdelta = Zero /\ DiskType(disk) /\ gdisk \in States
         /\ gstate \in States /\ gstate.moves = gdisk.moves
         /\ L \subseteq Pairs /\ L \subseteq Used /\ L = ListOf(disk)
         /\ GatherOf(disk, L) = Xor(Masked(gdisk), Zero)
<1>1. /\ Undisturbed /\ Calm /\ kin = {} /\ gdelta = Zero /\ DiskType(disk) /\ gdisk \in States
      /\ gstate \in States /\ gstate.moves = gdisk.moves
  BY DEF Still, Calm, GlobalOK
<1>2. L \subseteq Pairs /\ L \subseteq Used /\ L = ListOf(disk)
  BY <1>1, ListClosed, ListUsed DEF L
<1>3. Masked(gdisk) \in Deltas
  BY <1>1, MaskedTyped
<1>4. GatherOf(disk, L) = Xor(Masked(gdisk), Zero)
  BY <1>3, XorZero DEF Still
<1> QED
  BY <1>1, <1>2, <1>4

\* The list skips p.  D0 is the disk, or the disk without the last entry of p.
LEMMA SkipThrough ==
  ASSUME Still, NEW p \in L, NEW q \in L, NEW D0, Shape(D0, {}), ListOf(D0) = L,
         D0[q].tail = p, D0[p].entries = <<>>, D0[q].split \/ p \in OrphansOf(D0, {}),
         ReadsAs(disk, D0, L \ {p}), disk[p].tail = D0[p].tail, disk[p].split = D0[p].split,
         NEW g \in States, g.moves = {}, NEW less, Skip(q, p, g, less)
  PROVE  Through(g, less, OrphansOf(D0, {}) \ {p})
<1> DEFINE es == disk[q].entries
           t == disk[p].tail
           sp == disk[p].split
           gd == disk[p].delta
           D == Updated(q, es, t, sp, g, gd)
<1>1. /\ Undisturbed /\ Calm /\ kin = {} /\ gdelta = Zero /\ DiskType(disk) /\ gdisk \in States
      /\ L \subseteq Pairs /\ L \subseteq Used /\ L = ListOf(disk)
      /\ GatherOf(disk, L) = Xor(Masked(gdisk), Zero)
  BY StillIs
<1>2. q # p
  BY NoLoop DEF Shape
<1>3. /\ es \in Seq(EntryType) /\ t \in Pairs \cup {NoPair} /\ sp \in BOOLEAN /\ gd \in Deltas
      /\ Masked(gdisk) \in Deltas
  BY <1>1, DiskTyped, MaskedTyped
<1>4. Commit(q, es, t, sp, g, gd, less)
  <2>1. Xor(gdelta, disk[p].delta) = gd
    BY <1>1, <1>3, XorZero
  <2> QED
    BY <2>1 DEF Skip
<1>5. /\ DiskType(D) /\ D[q] = Content(Xor(disk[q].delta, Change(g, gd)), es, t, sp)
      /\ \A r \in Pairs \ {q} : D[r] = disk[r]
  <2> HIDE DEF es, t, sp, gd
  <2>1. q \in Pairs
    BY <1>1
  <2> QED
    BY <1>1, <1>3, <2>1, UpdatedTyped
<1> HIDE DEF D
<1>6. ReadsAs(D, D0, L \ {p, q})
  BY <1>1, <1>5 DEF ReadsAs
<1>7. D[q].entries = D0[q].entries /\ D[q].tail = D0[p].tail /\ D[q].split = D0[p].split
  BY <1>2, <1>5 DEF Content, ReadsAs
<1>8. Shape(D, {}) /\ ListOf(D) = L \ {p} /\ OrphansOf(D, {}) = OrphansOf(D0, {}) \ {p}
  BY <1>5, <1>6, <1>7, Skipped
<1>9. GatherOf(disk, ListOf(D)) = Xor(Masked(gdisk), gd)
  <2>1. GatherOf(disk, L) = Masked(gdisk)
    BY <1>1, <1>3, XorZero
  <2> QED
    BY <1>1, <1>8, <2>1, GatherLess
<1>10. Shape(D, g.moves) /\ q \in ListOf(D) /\ (\A m \in g.moves : m[1] # q) /\ ListOf(D) \subseteq Used
  BY <1>1, <1>2, <1>8
<1>11. D = Updated(q, es, t, sp, g, gd)
  BY DEF D
<1> HIDE DEF es, t, sp, gd
<1>12. Through(g, less, OrphansOf(D, g.moves))
  BY <1>1, <1>3, <1>4, <1>9, <1>10, <1>11, Committed
<1> QED
  BY <1>8, <1>12

\* The commit that deletes the hidden entry i of p is through.
LEMMA DeleteThrough ==
  ASSUME Still, NEW p \in L, NEW i \in DOMAIN disk[p].entries, Shape(disk, {<<p, i>>}),
         NEW g \in States, g.moves = {}, NEW less, CommitDelete(p, i, g, less)
  PROVE  Through(g, less, OrphansOf(disk, {<<p, i>>}))
<1> DEFINE es == RemoveAt(disk[p].entries, i)
           t == disk[p].tail
           sp == disk[p].split
           X == OrphansOf(disk, {<<p, i>>})
<1>1. /\ Undisturbed /\ Calm /\ kin = {} /\ gdelta = Zero /\ DiskType(disk) /\ gdisk \in States
      /\ L \subseteq Pairs /\ L \subseteq Used /\ L = ListOf(disk)
      /\ GatherOf(disk, L) = Xor(Masked(gdisk), Zero)
  BY StillIs
<1>2. /\ disk[p].entries \in Seq(EntryType) /\ t \in Pairs \cup {NoPair} /\ sp \in BOOLEAN
      /\ i \in 1..Len(disk[p].entries)
  BY <1>1, DiskTyped, EntryPlace
<1>3. es \in Seq(EntryType)
  BY <1>2, RemoveIs
<1> HIDE DEF es
<1>4. CASE Commit(p, es, t, sp, g, gdelta, less)
  <2> DEFINE D == Updated(p, es, t, sp, g, Zero)
  <2>1. /\ DiskType(D) /\ D[p] = Content(Xor(disk[p].delta, Change(g, Zero)), es, t, sp)
        /\ \A r \in Pairs \ {p} : D[r] = disk[r]
    BY <1>1, <1>2, <1>3, ZeroTyped, UpdatedTyped
  <2> HIDE DEF D
  <2>2. EntriesOf(p, disk, D) /\ D[p].entries = RemoveAt(disk[p].entries, i)
    BY <1>1, <2>1 DEF EntriesOf, ReadsAs, Content, es
  <2>3. Shape(D, {}) /\ ListOf(D) = L /\ OrphansOf(D, {}) = X
    BY <1>1, <2>1, <2>2, Deleted
  <2>4. /\ Shape(D, g.moves) /\ p \in ListOf(D) /\ (\A m \in g.moves : m[1] # p)
        /\ ListOf(D) \subseteq Used /\ GatherOf(disk, ListOf(D)) = Xor(Masked(gdisk), Zero)
    BY <1>1, <2>3
  <2>5. D = Updated(p, es, t, sp, g, Zero) /\ Commit(p, es, t, sp, g, Zero, less)
    BY <1>1, <1>4 DEF D
  <2> HIDE DEF t, sp
  <2>6. Through(g, less, OrphansOf(D, g.moves))
    BY <1>1, <1>2, <1>3, <2>4, <2>5, ZeroTyped, Committed
  <2> QED
    BY <2>3, <2>6
<1>5. ASSUME NEW q \in L, disk[q].tail = p, disk[q].split, es = <<>>, Skip(q, p, g, less)
      PROVE  Through(g, less, X)
  <2> DEFINE D0 == [disk EXCEPT ![p].entries = es]
  <2>1. /\ \A r \in Pairs \ {p} : D0[r] = disk[r]
        /\ D0[p] = [disk[p] EXCEPT !.entries = es]
        /\ D0 = [r \in Pairs |-> D0[r]]
    BY <1>1 DEF DiskType
  <2>2. disk[p] \in PairType
    BY <1>1 DEF DiskType
  <2>3. /\ D0[p].entries = es /\ D0[p].tail = disk[p].tail /\ D0[p].split = disk[p].split
        /\ D0[p] \in PairType
    <3>1. D0[p] = [entries |-> es, tail |-> disk[p].tail, split |-> disk[p].split,
                   delta |-> disk[p].delta]
      BY <2>1, <2>2 DEF PairType
    <3> QED
      BY <1>3, <2>2, <3>1 DEF PairType
  <2> HIDE DEF D0
  <2>4. DiskType(D0)
    BY <1>1, <2>1, <2>3 DEF DiskType
  <2>5. EntriesOf(p, disk, D0) /\ D0[p].entries = RemoveAt(disk[p].entries, i)
    BY <1>1, <2>1, <2>3 DEF EntriesOf, ReadsAs, es
  <2>6. Shape(D0, {}) /\ ListOf(D0) = L /\ OrphansOf(D0, {}) = X
    BY <1>1, <2>4, <2>5, Deleted
  <2>7. q # p
    BY <1>1, <1>5, NoLoop DEF Shape
  <2>8. ReadsAs(disk, D0, L \ {p}) /\ D0[q].tail = p /\ D0[q].split
    BY <1>1, <1>5, <2>1, <2>7 DEF ReadsAs
  <2>9. Through(g, less, OrphansOf(D0, {}) \ {p})
    BY <1>5, <2>3, <2>6, <2>8, SkipThrough
  <2>10. p \notin X
    <3>1. disk[p].entries # <<>>
      BY <1>1, EntryPlace
    <3> QED
      BY <3>1 DEF Shape, OrphansEmpty, EmptyIn
  <2> HIDE DEF X
  <2> QED
    BY <2>6, <2>9, <2>10
<1>6. \A r : r \in Preds(p) <=> r \in L /\ disk[r].tail = p
  BY <1>1, Quiet
<1> QED
  BY <1>4, <1>5, <1>6 DEF CommitDelete, es

-----------------------------------------------------------------------------
(* Each action preserves the invariant. *)

LEMMA InvIs ==
  ASSUME Undisturbed, IInv
  PROVE  /\ Calm /\ GlobalOK /\ Shape(disk, gdisk.moves) /\ PcOK /\ Sum /\ DiskType(disk)
         /\ L \subseteq Pairs /\ Orphaned = OrphansOf(disk, gdisk.moves) /\ L = ListOf(disk)
         /\ gstate \in States /\ gdisk \in States /\ gstate.moves = gdisk.moves
         /\ kin = {} /\ gdelta = Zero /\ reloc = None /\ found \in Nat
         /\ (New \subseteq L => Still)
<1>1. /\ Calm /\ GlobalOK /\ Shape(disk, gdisk.moves) /\ PcOK /\ Sum /\ DiskType(disk)
  BY DEF IInv, Shape
<1>2. New \subseteq L => L \cup New = L
  OBVIOUS
<1>3. New \subseteq L => GatherOf(disk, L) = Masked(gdisk)
  BY <1>1, <1>2 DEF Sum
<1>4. L \subseteq Pairs
  BY <1>1, ListClosed DEF L
<1> QED
  BY <1>1, <1>3, <1>4 DEF Still, Calm, GlobalOK, Orphaned, L

\* No commit ends with an error.
LEMMA NoFail == ASSUME Undisturbed, IInv PROVE \A g, gd : ~Fail(g, gd)
<1>1. fails = 0 /\ MaxFails = 0
  BY DEF Undisturbed, IInv, Calm
<1> QED
  BY <1>1 DEF Fail

\* The invariant after a commit.
LEMMA AfterCommit ==
  ASSUME NEW g \in States, NEW less, NEW X, Through(g, less, X), g.orphans - less \in Nat,
         found' \in Nat, New' \subseteq L', PcOK'
  PROVE  IInv'
<1>1. Calm'
  BY DEF Calm, Through
<1>2. GlobalOK'
  BY DEF GlobalOK, Through, States, Orphans
<1>3. Shape(disk, gdisk.moves)'
  BY DEF Through
<1>4. Sum'
  <2>1. L' \cup New' = L'
    OBVIOUS
  <2>2. GatherOf(disk', L') = Masked(gdisk')
    BY DEF Through, AddsUp, L
  <2> QED
    BY <2>1, <2>2 DEF Sum
<1> QED
  BY <1>1, <1>2, <1>3, <1>4 DEF IInv

LEMMA AfterIs ==
  ASSUME NEW g \in States, NEW less, NEW X, Through(g, less, X)
  PROVE  /\ Orphaned' = X /\ L' = ListOf(disk') /\ gdisk' = g
         /\ gstate'.orphans = g.orphans - less /\ gstate'.moves = g.moves
BY DEF Through, Orphaned, L, Orphans, States

\* The invariant after a step that writes nothing.
LEMMA AfterNone ==
  ASSUME Undisturbed, IInv, New \subseteq L, UNCHANGED <<disk, gdisk, gdelta, reloc, kin, relocs, fails>>,
         gstate' \in States, gstate'.moves = gstate.moves, found' \in Nat, New' = {}, PcOK'
  PROVE  IInv'
<1>1. /\ Calm /\ GlobalOK /\ Shape(disk, gdisk.moves) /\ GatherOf(disk, L) = Masked(gdisk)
  BY InvIs DEF Still
<1>2. Calm' /\ GlobalOK'
  BY <1>1 DEF Calm, GlobalOK
<1>3. Shape(disk, gdisk.moves)'
  BY <1>1
<1>4. Sum'
  <2>1. L' = L /\ L' \cup New' = L
    BY DEF L
  <2> QED
    BY <1>1, <2>1 DEF Sum
<1> QED
  BY <1>2, <1>3, <1>4 DEF IInv

LEMMA SameOrphaned == ASSUME UNCHANGED <<disk, gdisk>> PROVE Orphaned' = Orphaned /\ L' = L
BY DEF Orphaned, L

LEMMA BeginInv == ASSUME Undisturbed, IInv, Begin PROVE IInv'
<1>1. /\ gstate \in States /\ found \in Nat /\ PcOK
  BY InvIs
<1>2. pc = "idle" /\ pc' = "demove" /\ UNCHANGED <<disk, gstate, gdisk, gdelta, found, reloc, kin, relocs, fails>>
  BY DEF Begin, Goto
<1>3. New = {} /\ New' = {}
  BY <1>2 DEF New
<1>4. PcOK'
  BY <1>1, <1>2, SameOrphaned DEF PcOK
<1> QED
  BY <1>1, <1>2, <1>3, <1>4, AfterNone

\* A pending move is the only one.
LEMMA MoveIs ==
  ASSUME NEW mv, Shape(disk, mv), NEW m \in mv
  PROVE  mv = {<<m[1], m[2]>>} /\ m[1] \in L /\ m[2] \in DOMAIN disk[m[1]].entries
<1>1. m \in Pairs \X (Nat \ {0}) /\ OneMove(disk, mv)
  BY DEF Shape
<1>2. m = <<m[1], m[2]>>
  BY <1>1
<1>3. mv = {m}
  BY <1>1 DEF OneMove
<1> QED
  BY <1>1, <1>2, <1>3 DEF OneMove, L

LEMMA DemoveInv == ASSUME Undisturbed, IInv, Demove PROVE IInv'
<1>1. /\ gstate \in States /\ gdisk \in States /\ found \in Nat /\ PcOK /\ pc = "demove"
      /\ Shape(disk, gdisk.moves) /\ Orphaned = OrphansOf(disk, gdisk.moves)
  BY InvIs DEF Demove
<1>2. New = {} /\ Still
  BY <1>1, InvIs DEF New
<1>3. Orphaned # {} => gstate.orphans > 0
  BY <1>1 DEF PcOK
<1>4. CASE /\ gdisk.moves = {} /\ pc' = "deorphan"
           /\ UNCHANGED <<disk, gstate, gdisk, gdelta, found, reloc, kin, relocs, fails>>
  <2>1. New' = {}
    BY <1>4 DEF New
  <2>2. PcOK'
    BY <1>1, <1>4, SameOrphaned DEF PcOK
  <2> QED
    BY <1>1, <1>2, <1>4, <2>1, <2>2, AfterNone
<1>5. ASSUME NEW m \in gdisk.moves, CommitDelete(m[1], m[2], Move(gstate, {}), 0),
             pc' = "deorphan", found' = found
      PROVE  IInv'
  <2> DEFINE g == Move(gstate, {})
  <2>1. g \in States /\ g.moves = {} /\ g.orphans = gstate.orphans /\ g.orphans - 0 \in Nat
        /\ g.orphans - 0 = g.orphans
    BY <1>1 DEF Move, States
  <2>2. gdisk.moves = {<<m[1], m[2]>>} /\ m[1] \in L /\ m[2] \in DOMAIN disk[m[1]].entries
    BY <1>1, <1>5, MoveIs
  <2> HIDE DEF g
  <2>3. Through(g, 0, Orphaned)
    BY <1>1, <1>2, <1>5, <2>1, <2>2, DeleteThrough DEF g
  <2>4. /\ Orphaned' = Orphaned /\ gdisk' = g /\ gstate'.orphans = g.orphans
    BY <2>1, <2>3, AfterIs
  <2>5. PcOK'
    BY <1>3, <1>5, <2>1, <2>4 DEF PcOK
  <2>6. New' \subseteq L'
    BY <1>5 DEF New
  <2> QED
    BY <1>1, <1>5, <2>1, <2>3, <2>5, <2>6, AfterCommit
<1> QED
  BY <1>4, <1>5, NoFail DEF Demove, Goto, NothingElse, counts

LEMMA DeorphanDoneInv == ASSUME Undisturbed, IInv, DeorphanDone PROVE IInv'
<1>1. /\ gstate \in States /\ gdisk \in States /\ found \in Nat /\ PcOK /\ pc = "deorphan"
      /\ Shape(disk, gdisk.moves) /\ kin = {}
  BY InvIs DEF DeorphanDone
<1>2. New = {} /\ gdisk.moves = {} /\ (Orphaned # {} => gstate.orphans > 0)
  BY <1>1 DEF New, PcOK
<1>3. Orphaned = {}
  <2>1. FullOrphans = Orphaned
    BY <1>1, FullOrphansAre
  <2> QED
    BY <1>1, <1>2, <2>1 DEF DeorphanDone, States
<1>4. /\ gstate' = Orphans(gstate, gstate.orphans - Smaller(found, gstate.orphans))
      /\ found' = 0 /\ pc' = "ready"
      /\ UNCHANGED <<disk, gdisk, gdelta, reloc, kin, relocs, fails>>
  BY DEF DeorphanDone, counts
<1>5. gstate.orphans - Smaller(found, gstate.orphans) \in Nat
  BY <1>1 DEF Smaller, States
<1>6. gstate' \in States /\ gstate'.moves = gstate.moves
  BY <1>1, <1>4, <1>5 DEF States, Orphans
<1>7. New' = {}
  BY <1>4 DEF New
<1>8. PcOK'
  BY <1>2, <1>3, <1>4, SameOrphaned DEF PcOK
<1> QED
  BY <1>2, <1>4, <1>6, <1>7, <1>8, AfterNone

LEMMA RefuseInv == ASSUME Undisturbed, IInv, Refuse PROVE IInv'
<1>1. /\ gstate \in States /\ found \in Nat /\ PcOK
  BY InvIs
<1>2. pc = "ready" /\ pc' = "idle" /\ UNCHANGED <<disk, gstate, gdisk, gdelta, found, reloc, kin, relocs, fails>>
  BY DEF Refuse, Done, Goto, NothingElse, counts
<1>3. New = {} /\ New' = {}
  BY <1>2 DEF New
<1>4. PcOK'
  BY <1>1, <1>2, SameOrphaned DEF PcOK
<1> QED
  BY <1>1, <1>2, <1>3, <1>4, AfterNone

\* An orphan p leaves the list.
LEMMA OrphanLeaves ==
  ASSUME Still, Shape(disk, {}), gstate.moves = {}, NEW p \in OrphansOf(disk, {}),
         NEW q \in Preds(p), Skip(q, p, gstate, 0)
  PROVE  Through(gstate, 0, OrphansOf(disk, {}) \ {p}) /\ p \in L
<1>1. /\ kin = {} /\ DiskType(disk) /\ gstate \in States /\ L = ListOf(disk)
  BY StillIs
<1>2. q \in L /\ disk[q].tail = p
  BY <1>1, Quiet
<1>3. p \in L /\ EmptyIn(disk, p)
  BY <1>1 DEF Shape, OrphansEmpty, OrphansOf
<1>4. ReadsAs(disk, disk, L \ {p}) /\ disk[p].entries = <<>>
  BY <1>3 DEF ReadsAs, EmptyIn
<1> QED
  BY <1>1, <1>2, <1>3, <1>4, SkipThrough

LEMMA FixOrphanInv == ASSUME Undisturbed, IInv, FixOrphan PROVE IInv'
<1>1. /\ gstate \in States /\ gdisk \in States /\ found \in Nat /\ PcOK /\ pc = "deorphan"
      /\ Shape(disk, gdisk.moves) /\ Orphaned = OrphansOf(disk, gdisk.moves) /\ kin = {}
      /\ gstate.moves = gdisk.moves /\ gstate.orphans > 0
  BY InvIs DEF FixOrphan
<1>2. New = {} /\ Still /\ gdisk.moves = {}
  BY <1>1, InvIs DEF New, PcOK
<1>3. FullOrphans = Orphaned
  BY <1>1, FullOrphansAre
<1>4. PICK p \in Orphaned : \E q \in Preds(p) :
        Skip(q, p, gstate, 0) /\ found' = found + 1 /\ pc' = pc
  BY <1>3, NoFail DEF FixOrphan
<1>5. Through(gstate, 0, Orphaned \ {p})
  BY <1>1, <1>2, <1>4, OrphanLeaves
<1>6. gstate.orphans - 0 = gstate.orphans /\ gstate.orphans \in Nat
  BY <1>1 DEF States
<1>7. gdisk' = gstate /\ gstate'.orphans = gstate.orphans
  BY <1>1, <1>5, <1>6, AfterIs
<1>8. PcOK'
  BY <1>1, <1>2, <1>4, <1>7 DEF PcOK
<1>9. New' \subseteq L' /\ found' \in Nat
  BY <1>1, <1>4 DEF New
<1> QED
  BY <1>1, <1>5, <1>6, <1>8, <1>9, AfterCommit

LEMMA UnlinkInv == ASSUME Undisturbed, IInv, Unlink PROVE IInv'
<1>1. /\ gstate \in States /\ gdisk \in States /\ found \in Nat /\ PcOK /\ pc = "unlink"
      /\ Shape(disk, gdisk.moves) /\ Orphaned = OrphansOf(disk, gdisk.moves) /\ kin = {}
      /\ gstate.moves = gdisk.moves
  BY InvIs DEF Unlink
<1>2. New = {} /\ Still /\ gdisk.moves = {}
  BY <1>1, InvIs DEF New, PcOK
<1>3. PICK o \in Pairs : op.dirs = {o} /\ Orphaned = {o}
  BY <1>1 DEF PcOK
<1>4. PICK q \in Preds(o) : Skip(q, o, gstate, 0) /\ pc' = "idle" /\ found' = found
  BY <1>3, NoFail DEF Unlink, Done, Goto
<1>5. Through(gstate, 0, Orphaned \ {o})
  BY <1>1, <1>2, <1>3, <1>4, OrphanLeaves
<1>6. gstate.orphans - 0 \in Nat
  BY <1>1 DEF States
<1>7. Orphaned' = {}
  BY <1>1, <1>3, <1>5, AfterIs
<1>8. PcOK'
  BY <1>4, <1>7 DEF PcOK
<1>9. New' \subseteq L' /\ found' \in Nat
  BY <1>1, <1>4 DEF New
<1> QED
  BY <1>1, <1>5, <1>6, <1>8, <1>9, AfterCommit

LEMMA DeleteSourceInv == ASSUME Undisturbed, IInv, DeleteSource PROVE IInv'
<1> DEFINE g == Move(gstate, {})
           n == Cardinality(op.dirs)
<1>1. /\ gstate \in States /\ gdisk \in States /\ found \in Nat /\ PcOK /\ pc = "delete_source"
      /\ Shape(disk, gdisk.moves) /\ Orphaned = OrphansOf(disk, gdisk.moves)
      /\ gstate.moves = gdisk.moves
  BY InvIs DEF DeleteSource
<1>2. New = {} /\ Still
  BY <1>1, InvIs DEF New
<1>3. /\ gdisk.moves = {op.at} /\ Orphaned = op.dirs
      /\ \/ op.dirs = {}
         \/ gstate.orphans > 0 /\ gdisk.orphans > 0 /\ \E o \in Pairs : op.dirs = {o}
  BY <1>1 DEF PcOK
<1>4. /\ CommitDelete(op.at[1], op.at[2], g, n)
      /\ IF op.dirs = {} THEN pc' = "idle" ELSE pc' = "unlink" /\ op' = op
      /\ found' = found
  BY <1>1, <1>3, NoFail DEF DeleteSource, Done, Goto
<1>5. gdisk.moves = {<<op.at[1], op.at[2]>>} /\ op.at[1] \in L /\ op.at[2] \in DOMAIN disk[op.at[1]].entries
  BY <1>1, <1>3, MoveIs
<1>6. g \in States /\ g.moves = {} /\ g.orphans = gstate.orphans /\ g.orphans \in Nat
  BY <1>1 DEF Move, States
<1> HIDE DEF g
<1>7. Through(g, n, Orphaned)
  BY <1>1, <1>2, <1>4, <1>5, <1>6, DeleteThrough
<1>8. g.orphans - n \in Nat
  <2>1. CASE op.dirs = {}
    BY <1>6, <2>1, FS_EmptySet
  <2>2. ASSUME NEW o \in Pairs, op.dirs = {o}, gstate.orphans > 0 PROVE g.orphans - n \in Nat
    <3>1. n = 1
      BY <2>2, FS_Singleton
    <3> QED
      BY <1>6, <2>2, <3>1
  <2> QED
    BY <1>3, <2>1, <2>2
<1> HIDE DEF n
<1>9. Orphaned' = Orphaned /\ gdisk' = g
  BY <1>6, <1>7, AfterIs
<1>10. PcOK'
  <2>1. CASE op.dirs = {}
    BY <1>3, <1>4, <1>9, <2>1 DEF PcOK
  <2>2. CASE op.dirs # {}
    BY <1>3, <1>4, <1>6, <1>9, <2>2 DEF PcOK
  <2> QED
    BY <2>1, <2>2
<1>11. New' \subseteq L' /\ found' \in Nat
  BY <1>1, <1>4 DEF New
<1> QED
  BY <1>6, <1>7, <1>8, <1>10, <1>11, AfterCommit

\* Removing entry e, of a file or an empty directory.
LEMMA RemoveEntryInv ==
  ASSUME Undisturbed, IInv, pc = "ready", NEW e, e[1] \in L, e[2] \in DOMAIN disk[e[1]].entries,
         RemoveEntry(e)
  PROVE  IInv'
<1> DEFINE p == e[1]
           i == e[2]
           o == Obj(e)
           dirs == {o} \cap Pairs
           n == Cardinality(dirs)
           g == Orphans(gstate, gstate.orphans + n)
<1>1. /\ gstate \in States /\ gdisk \in States /\ found \in Nat /\ PcOK
      /\ Shape(disk, gdisk.moves) /\ Orphaned = OrphansOf(disk, gdisk.moves)
      /\ gstate.moves = gdisk.moves /\ L = ListOf(disk)
  BY InvIs
<1>2. New = {} /\ Still /\ gdisk.moves = {} /\ Orphaned = {}
  BY <1>1, InvIs DEF New, PcOK
<1>3. /\ CommitDelete(p, i, g, n)
      /\ IF dirs = {} THEN pc' = "idle" ELSE pc' = "unlink" /\ op' = [kind |-> "remove", dirs |-> dirs]
      /\ found' = found
      /\ \A d \in dirs : IsEmptyDir(d)
  BY NoFail DEF RemoveEntry, Done, Goto
<1>4. o = disk[p].entries[i].obj /\ p \in L /\ i \in DOMAIN disk[p].entries
  BY DEF Obj
<1>5. n = IF dirs = {} THEN 0 ELSE 1
  <2>1. CASE dirs = {}
    BY <2>1, FS_EmptySet
  <2>2. CASE dirs # {}
    <3>1. dirs = {o}
      BY <2>2
    <3> HIDE DEF dirs
    <3> QED
      BY <2>2, <3>1, FS_Singleton
  <2> QED
    BY <2>1, <2>2
<1> HIDE DEF n
<1>6. /\ g \in States /\ g.moves = {} /\ g.orphans = gstate.orphans + n /\ g.orphans - n \in Nat
      /\ (dirs # {} => g.orphans > 0)
  BY <1>1, <1>2, <1>5 DEF Orphans, States
<1> HIDE DEF g
<1>7. Shape(disk, {<<p, i>>}) /\ OrphansOf(disk, {<<p, i>>}) = dirs
  <2>1. o \in Pairs => EmptyIn(disk, o)
    BY <1>3 DEF IsEmptyDir, EmptyIn
  <2>2. Shape(disk, {}) /\ OrphansOf(disk, {}) = {} /\ p \in ListOf(disk)
    BY <1>1, <1>2, <1>4
  <2> HIDE DEF p, i, o
  <2>3. /\ Shape(disk, {<<p, i>>})
        /\ OrphansOf(disk, {<<p, i>>}) = OrphansOf(disk, {}) \cup ({disk[p].entries[i].obj} \cap Pairs)
    BY <1>4, <2>1, <2>2, Hidden
  <2> QED
    BY <1>4, <2>2, <2>3
<1>8. Through(g, n, dirs)
  <2> HIDE DEF p, i, dirs
  <2> QED
    BY <1>2, <1>3, <1>4, <1>6, <1>7, DeleteThrough
<1>9. Orphaned' = dirs /\ gdisk' = g
  BY <1>6, <1>8, AfterIs
<1>10. PcOK'
  <2>1. CASE dirs = {}
    BY <1>3, <1>9, <2>1 DEF PcOK
  <2>2. CASE dirs # {}
    <3>1. dirs = {o} /\ o \in Pairs
      BY <2>2
    <3>2. op'.dirs = dirs /\ pc' = "unlink"
      BY <1>3, <2>2
    <3> HIDE DEF dirs, o
    <3> QED
      BY <1>6, <1>9, <2>2, <3>1, <3>2 DEF PcOK
  <2> QED
    BY <2>1, <2>2
<1>11. New' \subseteq L' /\ found' \in Nat
  BY <1>1, <1>3 DEF New
<1> QED
  BY <1>6, <1>8, <1>10, <1>11, AfterCommit

LEMMA MaskedUnmasked == \A d \in Deltas : Masked(Unmasked(d)) = d /\ Unmasked(d) \in States
                                          /\ Unmasked(d).moves = d.moves
BY DEF Masked, Unmasked, Deltas, States

LEMMA CrashInv == ASSUME Undisturbed, IInv, Crash PROVE IInv'
<1> DEFINE G == GatherOf(disk, L)
<1>1. /\ gstate \in States /\ gdisk \in States /\ PcOK /\ Sum /\ Calm
      /\ Shape(disk, gdisk.moves) /\ Orphaned = OrphansOf(disk, gdisk.moves)
      /\ L = ListOf(disk) /\ L \subseteq Pairs /\ kin = {} /\ DiskType(disk)
  BY InvIs
<1>2. G \in Deltas /\ Masked(gdisk) \in Deltas
  BY <1>1, GatherTyped, MaskedTyped
<1>3. G.moves = gdisk.moves /\ (Orphaned # {} => G.orphan)
  <2>1. CASE New \subseteq L
    <3>1. L \cup New = L
      BY <2>1
    <3>2. G = Masked(gdisk)
      BY <1>1, <3>1 DEF Sum
    <3>3. Orphaned # {} => gdisk.orphans > 0
      BY NothingNew
    <3> HIDE DEF G
    <3> QED
      BY <3>2, <3>3 DEF Masked
  <2>2. CASE ~(New \subseteq L)
    <3>1. PICK b : NewBehind(op.new, b) /\ New = {op.new} /\ Orphaned = {} /\ gdisk.moves = {}
      <4>1. Orphaned \subseteq L
        BY <1>1 DEF OrphansOf
      <4> QED
        BY <1>1, <2>2, <4>1 DEF PcOK, New
    <3> DEFINE q == op.new
    <3>2. q \in Pairs /\ q \notin L /\ disk[q].delta.moves = {}
      BY <3>1 DEF NewBehind
    <3>3. GatherOf(disk, L \cup {q}) = Xor(G, disk[q].delta)
      BY <1>1, <3>2, GatherAdd
    <3>4. Masked(gdisk) = Xor(G, disk[q].delta)
      BY <1>1, <3>1, <3>3 DEF Sum
    <3>5. gdisk.moves = SymDiff(G.moves, disk[q].delta.moves)
      BY <3>4 DEF Masked, Xor
    <3> HIDE DEF G
    <3> QED
      BY <3>1, <3>2, <3>5 DEF SymDiff
  <2> QED
    BY <2>1, <2>2
<1>4. Gathered(List) = G
  BY <1>1, Quiet
<1> HIDE DEF G
<1>5. gstate' = Unmasked(G) /\ gdisk' = gstate' /\ UNCHANGED <<disk, kin, relocs, fails>>
      /\ gdelta' = Zero /\ found' = 0 /\ pc' = "idle" /\ reloc' = None
  BY <1>4 DEF Crash, counts
<1>6. /\ gstate' \in States /\ gdisk' \in States /\ gdisk'.moves = gdisk.moves /\ Masked(gdisk') = G
  BY <1>2, <1>3, <1>5, MaskedUnmasked
<1>7. Orphaned' = Orphaned /\ L' = L
  BY <1>5, <1>6 DEF Orphaned, L
<1>8. Calm' /\ GlobalOK'
  BY <1>1, <1>5, <1>6 DEF Calm, GlobalOK
<1>9. Shape(disk, gdisk.moves)'
  BY <1>1, <1>5, <1>6
<1>10. PcOK'
  <2>1. Orphaned' # {} => gstate'.orphans > 0 /\ gdisk'.orphans > 0
    BY <1>3, <1>5, <1>7 DEF Unmasked
  <2> QED
    BY <1>5, <2>1 DEF PcOK
<1>11. Sum'
  <2>1. New' = {} /\ L' \cup New' = L
    BY <1>5, <1>7 DEF New
  <2> QED
    BY <1>5, <1>6, <2>1 DEF Sum, G
<1> QED
  BY <1>8, <1>9, <1>10, <1>11 DEF IInv

\* An entry is inserted: a file's, or that of a directory on the list.
LEMMA InsertThrough ==
  ASSUME Still, Shape(disk, {}), gstate.moves = {}, NEW p \in Owned(disk, {}),
         NEW j \in 1..(Len(disk[p].entries) + 1), NEW x \in EntryType,
         x.obj \in Pairs => x.obj \in OrphansOf(disk, {}),
         Commit(p, InsertAt(disk[p].entries, j, x), disk[p].tail, disk[p].split, gstate, gdelta, 0)
  PROVE  Through(gstate, 0, OrphansOf(disk, {}) \ {x.obj})
<1> DEFINE es == InsertAt(disk[p].entries, j, x)
           t == disk[p].tail
           sp == disk[p].split
           D == Updated(p, es, t, sp, gstate, Zero)
           X == OrphansOf(disk, {})
<1>1. /\ Undisturbed /\ Calm /\ kin = {} /\ gdelta = Zero /\ DiskType(disk) /\ gdisk \in States
      /\ L \subseteq Pairs /\ L \subseteq Used /\ L = ListOf(disk) /\ gstate \in States
      /\ GatherOf(disk, L) = Xor(Masked(gdisk), Zero)
  BY StillIs
<1>2. p \in L /\ p \in Pairs
  BY <1>1, OwnedListed DEF Shape
<1>3. disk[p].entries \in Seq(EntryType) /\ t \in Pairs \cup {NoPair} /\ sp \in BOOLEAN
  BY <1>1, <1>2, DiskTyped
<1>4. es \in Seq(EntryType)
  BY <1>3, InsertIs
<1> HIDE DEF es
<1>5. /\ DiskType(D) /\ D[p] = Content(Xor(disk[p].delta, Change(gstate, Zero)), es, t, sp)
      /\ \A r \in Pairs \ {p} : D[r] = disk[r]
  <2> HIDE DEF t, sp
  <2> QED
    BY <1>1, <1>2, <1>3, <1>4, ZeroTyped, UpdatedTyped
<1> HIDE DEF D
<1>6. EntriesOf(p, disk, D) /\ D[p].entries = InsertAt(disk[p].entries, j, x)
  BY <1>1, <1>5 DEF EntriesOf, ReadsAs, Content, es
<1>7. Shape(D, {}) /\ ListOf(D) = L /\ OrphansOf(D, {}) = X \ {x.obj}
  BY <1>1, <1>5, <1>6, Inserted
<1>8. /\ Shape(D, gstate.moves) /\ p \in ListOf(D) /\ (\A m \in gstate.moves : m[1] # p)
      /\ ListOf(D) \subseteq Used /\ GatherOf(disk, ListOf(D)) = Xor(Masked(gdisk), Zero)
  BY <1>1, <1>2, <1>7
<1>9. D = Updated(p, es, t, sp, gstate, Zero) /\ Commit(p, es, t, sp, gstate, Zero, 0)
  BY <1>1 DEF D, es
<1> HIDE DEF t, sp
<1>10. Through(gstate, 0, OrphansOf(D, gstate.moves))
  BY <1>1, <1>2, <1>3, <1>4, <1>8, <1>9, ZeroTyped, Committed
<1> QED
  BY <1>7, <1>10

\* Between operations.
LEMMA ReadyIs ==
  ASSUME Undisturbed, IInv, pc = "ready"
  PROVE  /\ Still /\ Shape(disk, {}) /\ gstate.moves = {} /\ gdisk.moves = {}
         /\ OrphansOf(disk, {}) = {} /\ Orphaned = {} /\ New = {}
         /\ gstate \in States /\ gdisk \in States /\ found \in Nat
         /\ L = ListOf(disk) /\ Owned(disk, {}) = L /\ L \subseteq Pairs
<1>1. /\ gdisk.moves = {} /\ Orphaned = {} /\ New = {}
      /\ Shape(disk, {}) /\ DiskType(disk) /\ gstate.moves = {} /\ OrphansOf(disk, {}) = {}
      /\ gstate \in States /\ gdisk \in States /\ found \in Nat /\ L = ListOf(disk)
      /\ L \subseteq Pairs
  BY InvIs DEF PcOK, New
<1>2. Still
  BY <1>1, InvIs
<1>3. Owned(disk, {}) = L
  BY <1>1, OwnedListed DEF Shape, OrphansOf
<1> QED
  BY <1>1, <1>2, <1>3

LEMMA CreateInv ==
  ASSUME Undisturbed, IInv, pc = "ready", NEW e, At(e), NEW n \in Names, NEW f \in Files,
         Create(e, n, f)
  PROVE  IInv'
<1> DEFINE p == e[1]
           j == e[2]
           x == [name |-> n, obj |-> f]
<1>1. /\ Still /\ Shape(disk, {}) /\ gstate.moves = {} /\ OrphansOf(disk, {}) = {} /\ Owned(disk, {}) = L
      /\ gstate \in States /\ found \in Nat
  BY ReadyIs
<1>2. /\ Commit(p, InsertAt(disk[p].entries, j, x), disk[p].tail, disk[p].split, gstate, gdelta, 0)
      /\ pc' = "idle" /\ found' = found
  BY NoFail DEF Create, Insert, Done, Goto
<1>3. x \in EntryType /\ x.obj \notin Pairs
  BY RootTyped DEF EntryType
<1>4. p \in L /\ j \in 1..(Len(disk[p].entries) + 1)
  BY DEF At
<1> HIDE DEF p, j, x
<1>5. Through(gstate, 0, OrphansOf(disk, {}) \ {x.obj})
  BY <1>1, <1>2, <1>3, <1>4, InsertThrough
<1>6. gstate.orphans - 0 \in Nat
  BY <1>1 DEF States
<1>7. Orphaned' = {}
  BY <1>1, <1>5, AfterIs
<1>8. PcOK'
  BY <1>2, <1>7 DEF PcOK
<1>9. New' \subseteq L' /\ found' \in Nat
  BY <1>1, <1>2 DEF New
<1> QED
  BY <1>1, <1>5, <1>6, <1>8, <1>9, AfterCommit

\* The new pair is written.
LEMMA MkdirInv ==
  ASSUME Undisturbed, IInv, pc = "ready", NEW e, At(e), NEW n \in Names, Mkdir(e, n)
  PROVE  IInv'
<1>1. /\ Still /\ Shape(disk, {}) /\ gstate.moves = {} /\ gdisk.moves = {} /\ OrphansOf(disk, {}) = {}
      /\ gstate \in States /\ found \in Nat /\ L = ListOf(disk) /\ L \subseteq Pairs
  BY ReadyIs
<1>2. /\ Undisturbed /\ Calm /\ kin = {} /\ gdelta = Zero /\ DiskType(disk) /\ gdisk \in States
      /\ L \subseteq Used /\ GatherOf(disk, L) = Xor(Masked(gdisk), Zero) /\ Threaded(disk)
  BY <1>1, StillIs DEF Shape
<1>3. e[1] \in L /\ e[2] \in 1..(Len(disk[e[1]].entries) + 1)
  BY DEF At
<1>4. PICK end \in L : /\ end = ChainEnd(e[1]) /\ ~disk[end].split
                     /\ (~disk[e[1]].split => end = e[1])
  BY <1>1, <1>2, <1>3, ChainEndIs
<1> DEFINE c == Change(gstate, Zero)
           t == disk[end].tail
<1>5. PICK q \in FreePairs :
        /\ disk' = [disk EXCEPT ![q] = Content(c, <<>>, t, FALSE)]
        /\ kin' = KinWithout(q) /\ gdisk' = gstate /\ gdelta' = Zero
        /\ pc' = (IF disk[e[1]].split THEN "mkdir_pred" ELSE "mkdir_parent")
        /\ op' = [kind |-> "mkdir", at |-> e, name |-> n, new |-> q, pred |-> end]
        /\ found' = found /\ UNCHANGED <<gstate, reloc, relocs, fails>>
  BY <1>2, <1>4 DEF Mkdir, Goto, counts
<1>6. q \in Pairs /\ q \notin L
  BY <1>2, <1>5 DEF FreePairs
<1>7. /\ c \in Deltas /\ Xor(Masked(gdisk), c) = Masked(gstate) /\ c.moves = {}
  <2>1. c \in Deltas /\ Xor(Xor(Masked(gdisk), Zero), c) = Masked(gstate) /\ Masked(gdisk) \in Deltas
    BY <1>1, <1>2, ZeroTyped, ChangeTyped
  <2>2. c.moves = {}
    BY <1>1 DEF Change, Xor, Masked, Zero, SymDiff
  <2> QED
    BY <2>1, <2>2, XorZero
<1>8. t \in Pairs \cup {NoPair}
  BY <1>1, <1>2, <1>4, DiskTyped
<1> DEFINE E == disk'
<1>9. E[q] = Content(c, <<>>, t, FALSE) /\ (\A r \in Pairs \ {q} : E[r] = disk[r])
      /\ E = [r \in Pairs |-> E[r]]
  BY <1>2, <1>5, <1>6 DEF DiskType
<1> HIDE DEF c
<1>10. Content(c, <<>>, t, FALSE) \in PairType
  <2>1. << >> \in Seq(EntryType)
    OBVIOUS
  <2> QED
    BY <1>7, <1>8, <2>1 DEF Content, PairType
<1> HIDE DEF E
<1>11. DiskType(E)
  BY <1>2, <1>9, <1>10 DEF DiskType
<1>12. ReadsAs(E, disk, ListOf(disk))
  BY <1>1, <1>6, <1>9 DEF ReadsAs
<1>13. Shape(E, {}) /\ ListOf(E) = L /\ OrphansOf(E, {}) = {}
  BY <1>1, <1>11, <1>12, OffList
<1>14. GatherOf(E, L \cup {q}) = Masked(gstate)
  <2>1. \A r \in L : E[r].delta = disk[r].delta
    BY <1>1, <1>6, <1>9
  <2>2. GatherOf(E, L) = GatherOf(disk, L)
    BY <2>1, GatherSame
  <2>3. E[q].delta = c
    BY <1>9 DEF Content
  <2>4. GatherOf(E, L \cup {q}) = Xor(GatherOf(E, L), c)
    BY <1>1, <1>6, <1>11, <2>3, GatherAdd
  <2>5. Masked(gdisk) \in Deltas
    BY <1>2, MaskedTyped
  <2> QED
    BY <1>2, <1>7, <2>2, <2>4, <2>5, XorZero
<1>15. L' = L /\ Orphaned' = {} /\ gdisk' = gstate /\ gdisk'.moves = {} /\ gstate' = gstate
  BY <1>1, <1>5, <1>13 DEF L, Orphaned, E
<1>16. New' = {q} /\ op'.at = e /\ op'.name = n /\ op'.new = q /\ op'.pred = end
  BY <1>5 DEF New
<1>17. Calm' /\ GlobalOK'
  <2>1. kin' = {}
    BY <1>2, <1>5 DEF KinWithout
  <2> QED
    BY <1>1, <1>2, <1>5, <2>1 DEF Calm, GlobalOK
<1>18. Shape(disk, gdisk.moves)'
  BY <1>13, <1>15 DEF E
<1>19. Sum'
  <2>1. L' \cup New' = L \cup {q}
    BY <1>15, <1>16
  <2> QED
    BY <1>14, <1>15, <2>1 DEF Sum, E
<1>20. E[end] = disk[end] /\ E[e[1]] = disk[e[1]]
  BY <1>1, <1>3, <1>4, <1>6, <1>9
<1>21. /\ end \in L' /\ ~disk'[end].split /\ q \in Pairs /\ q \notin L' /\ EmptyIn(disk', q)
       /\ disk'[q].tail = disk'[end].tail /\ disk'[q].delta.moves = {}
  <2>1. EmptyIn(E, q) /\ E[q].tail = t /\ E[q].delta.moves = {}
    BY <1>7, <1>9 DEF Content, EmptyIn
  <2> QED
    BY <1>4, <1>6, <1>15, <1>20, <2>1 DEF E
<1>22. e[1] \in L' /\ e[2] \in 1..(Len(disk'[e[1]].entries) + 1)
  BY <1>3, <1>15, <1>20 DEF E
<1>23. PcOK'
  <2>1. CASE disk[e[1]].split
    <3>1. disk'[e[1]].split /\ pc' = "mkdir_pred"
      BY <1>5, <1>20, <2>1 DEF E
    <3> QED
      BY <1>15, <1>16, <1>21, <1>22, <3>1 DEF PcOK, At, NewBehind
  <2>2. CASE ~disk[e[1]].split
    <3>1. pc' = "mkdir_parent" /\ end = e[1]
      BY <1>4, <1>5, <2>2
    <3> QED
      BY <1>15, <1>16, <1>21, <1>22, <3>1 DEF PcOK, At, NewBehind
  <2> QED
    BY <2>1, <2>2
<1> QED
  BY <1>17, <1>18, <1>19, <1>23 DEF IInv

\* The new pair is put on the list.
LEMMA MkdirPredInv == ASSUME Undisturbed, IInv, MkdirPred PROVE IInv'
<1>1. PICK p, q, e : p = op.pred /\ q = op.new /\ e = op.at
  OBVIOUS
<1>2. /\ gstate \in States /\ gdisk \in States /\ found \in Nat /\ PcOK /\ pc = "mkdir_pred"
      /\ Shape(disk, gdisk.moves) /\ Orphaned = OrphansOf(disk, gdisk.moves) /\ Calm
      /\ gstate.moves = gdisk.moves /\ L = ListOf(disk) /\ L \subseteq Pairs /\ kin = {}
      /\ DiskType(disk) /\ Sum /\ gdelta = Zero
  BY InvIs DEF MkdirPred
<1>3. /\ gdisk.moves = {} /\ Orphaned = {} /\ New = {q}
      /\ e[1] \in L /\ e[2] \in 1..(Len(disk[e[1]].entries) + 1)
      /\ disk[e[1]].split /\ op.name \in Names
      /\ p \in L /\ ~disk[p].split /\ q \in Pairs /\ q \notin L /\ EmptyIn(disk, q)
      /\ disk[q].tail = disk[p].tail
  BY <1>1, <1>2 DEF PcOK, New, At, NewBehind
<1> DEFINE g == Orphans(gstate, gstate.orphans + 1)
           es == disk[p].entries
<1>4. /\ Commit(p, es, q, FALSE, g, Zero, 1) /\ pc' = "mkdir_parent" /\ op' = op /\ found' = found
  BY <1>1, <1>2, NoFail DEF MkdirPred, Goto
<1>5. g \in States /\ g.moves = {} /\ g.orphans > 0 /\ g.orphans - 1 \in Nat
  BY <1>2, <1>3 DEF Orphans, States
<1>6. es \in Seq(EntryType)
  BY <1>2, <1>3, DiskTyped
<1> DEFINE D == Updated(p, es, q, FALSE, g, Zero)
<1> HIDE DEF g
<1>7. /\ DiskType(D) /\ D[p] = Content(Xor(disk[p].delta, Change(g, Zero)), es, q, FALSE)
      /\ \A r \in Pairs \ {p} : D[r] = disk[r]
  <2> DEFINE sp == FALSE
  <2>1. p \in Pairs /\ q \in Pairs \cup {NoPair} /\ sp \in BOOLEAN
    BY <1>2, <1>3
  <2> HIDE DEF es, sp
  <2>2. LET U == Updated(p, es, q, sp, g, Zero) IN
        /\ DiskType(U) /\ U[p] = Content(Xor(disk[p].delta, Change(g, Zero)), es, q, sp)
        /\ \A r \in Pairs \ {p} : U[r] = disk[r]
    BY <1>2, <1>5, <1>6, <2>1, ZeroTyped, UpdatedTyped
  <2> QED
    BY <2>2 DEF sp
<1> HIDE DEF D
<1>8. /\ ReadsAs(D, disk, (ListOf(disk) \cup {q}) \ {p})
      /\ D[p].entries = disk[p].entries /\ D[p].tail = q /\ D[p].split = FALSE
  BY <1>2, <1>3, <1>7 DEF ReadsAs, Content
<1>9. Shape(D, {}) /\ ListOf(D) = L \cup {q} /\ OrphansOf(D, {}) = {q}
  <2>1. Shape(disk, {}) /\ OrphansOf(disk, {}) = {} /\ p \in ListOf(disk) /\ q \notin ListOf(disk)
    BY <1>2, <1>3
  <2>2. Links(disk, D, p, q)
    BY <1>3, <1>7, <1>8 DEF Links
  <2>3. Joined(disk, D, {}, q)
    BY <1>3, <2>1, <2>2, Linked
  <2> QED
    BY <1>2, <2>1, <2>3 DEF Joined
<1>10. ListOf(D) \subseteq Used /\ GatherOf(disk, ListOf(D)) = Xor(Masked(gdisk), Zero)
  <2>1. L \cup New \subseteq Used
    BY <1>2, ListUsed
  <2>2. Masked(gdisk) \in Deltas
    BY <1>2, MaskedTyped
  <2> QED
    BY <1>2, <1>3, <1>9, <2>1, <2>2, XorZero DEF Sum
<1>11. Through(g, 1, OrphansOf(D, g.moves)) /\ Beside(D, p)
  <2>1. D = Updated(p, es, q, FALSE, g, Zero)
    BY DEF D
  <2>2. Shape(D, g.moves) /\ p \in ListOf(D) /\ p \in Pairs /\ (\A m \in g.moves : m[1] # p)
    BY <1>2, <1>3, <1>5, <1>9
  <2> HIDE DEF es
  <2> QED
    BY <1>2, <1>4, <1>5, <1>10, <2>1, <2>2, ZeroTyped, Committed
<1>12. Through(g, 1, {q})
  BY <1>5, <1>9, <1>11
<1>13. Orphaned' = {q} /\ L' = ListOf(disk') /\ gdisk' = g
  BY <1>5, <1>12, AfterIs
<1>14. e[1] \in L' /\ disk'[e[1]].entries = disk[e[1]].entries /\ disk'[e[1]].split /\ q \in L'
  <2>1. e[1] \in ListOf(D) \ {p} /\ e[1] \in Pairs \ {p} /\ q \in ListOf(D)
    BY <1>2, <1>3, <1>9
  <2> QED
    BY <1>3, <1>7, <1>11, <1>13, <2>1 DEF Beside
<1>15. PcOK'
  BY <1>1, <1>3, <1>4, <1>5, <1>13, <1>14 DEF PcOK, At
<1>16. New' \subseteq L' /\ found' \in Nat
  BY <1>1, <1>2, <1>4, <1>14 DEF New
<1> QED
  BY <1>5, <1>12, <1>15, <1>16, AfterCommit

\* The new directory is named, and linked if it is not yet.
LEMMA MkdirParentInv == ASSUME Undisturbed, IInv, MkdirParent PROVE IInv'
<1>1. PICK p, j, q, n : p = op.at[1] /\ j = op.at[2] /\ q = op.new /\ n = op.name
  OBVIOUS
<1>2. /\ gstate \in States /\ gdisk \in States /\ found \in Nat /\ PcOK /\ pc = "mkdir_parent"
      /\ Shape(disk, gdisk.moves) /\ Orphaned = OrphansOf(disk, gdisk.moves) /\ Calm
      /\ gstate.moves = gdisk.moves /\ L = ListOf(disk) /\ L \subseteq Pairs /\ kin = {}
      /\ DiskType(disk) /\ Sum /\ gdelta = Zero
  BY InvIs DEF MkdirParent
<1>3. /\ gdisk.moves = {} /\ New = {q} /\ p \in L /\ j \in 1..(Len(disk[p].entries) + 1) /\ n \in Names
  BY <1>1, <1>2 DEF PcOK, New, At
<1>4. \/ disk[p].split /\ Orphaned = {q}
      \/ /\ Orphaned = {} /\ ~disk[p].split /\ q \in Pairs /\ q \notin L /\ EmptyIn(disk, q)
         /\ disk[q].tail = disk[p].tail
  BY <1>1, <1>2 DEF PcOK, NewBehind
<1> DEFINE x == [name |-> n, obj |-> q]
           es == InsertAt(disk[p].entries, j, x)
<1>5. /\ Commit(p, es, IF disk[p].split THEN disk[p].tail ELSE q, disk[p].split, gstate, Zero, 0)
      /\ pc' = "idle" /\ found' = found
  BY <1>1, <1>2, NoFail DEF MkdirParent, Insert, Done, Goto
<1>6. Through(gstate, 0, {})
  <2>1. CASE disk[p].split /\ Orphaned = {q}
    <3>1. q \in L /\ Still /\ Shape(disk, {}) /\ OrphansOf(disk, {}) = {q} /\ gstate.moves = {}
      <4>1. q \in L
        BY <1>2, <2>1 DEF OrphansOf
      <4> QED
        BY <1>2, <1>3, <2>1, <4>1, InvIs
    <3>2. x \in EntryType /\ x.obj = q
      BY <1>2, <1>3, <3>1 DEF EntryType
    <3>3. p \in Owned(disk, {})
      BY <1>2, <1>3, <2>1, <3>1, OrphanAlone
    <3>4. Commit(p, InsertAt(disk[p].entries, j, x), disk[p].tail, disk[p].split, gstate, gdelta, 0)
      BY <1>2, <1>5, <2>1
    <3> HIDE DEF x
    <3>5. Through(gstate, 0, OrphansOf(disk, {}) \ {x.obj})
      BY <1>3, <3>1, <3>2, <3>3, <3>4, InsertThrough
    <3>6. OrphansOf(disk, {}) \ {x.obj} = {}
      BY <3>1, <3>2
    <3> QED
      BY <3>5, <3>6
  <2>2. CASE /\ Orphaned = {} /\ ~disk[p].split /\ q \in Pairs /\ q \notin L /\ EmptyIn(disk, q)
             /\ disk[q].tail = disk[p].tail
    <3>1. p \in Pairs /\ disk[p].split = FALSE /\ q # p /\ disk[p] \in PairType
      BY <1>2, <1>3, <2>2, DiskTyped DEF DiskType
    <3>2. disk[p].entries \in Seq(EntryType) /\ x \in EntryType /\ x.obj = q
      BY <1>2, <1>3, <2>2, <3>1, DiskTyped DEF EntryType
    <3> HIDE DEF x
    <3>3. es \in Seq(EntryType)
      BY <1>3, <3>2, InsertIs
    <3> HIDE DEF es
    <3> DEFINE D0 == [disk EXCEPT ![p].tail = q]
               D == Updated(p, es, q, FALSE, gstate, Zero)
    <3>4. /\ \A r \in Pairs \ {p} : D0[r] = disk[r]
          /\ D0[p] = [entries |-> disk[p].entries, tail |-> q, split |-> disk[p].split,
                      delta |-> disk[p].delta]
          /\ D0 = [r \in Pairs |-> D0[r]]
      BY <1>2, <3>1 DEF DiskType, PairType
    <3> HIDE DEF D0
    <3>5. DiskType(D0)
      <4>1. D0[p] \in PairType
        BY <2>2, <3>1, <3>4 DEF PairType
      <4> QED
        BY <1>2, <3>4, <4>1 DEF DiskType
    <3>6. /\ ReadsAs(D0, disk, (ListOf(disk) \cup {q}) \ {p})
          /\ D0[p].entries = disk[p].entries /\ D0[p].tail = q /\ D0[p].split = FALSE
      BY <1>2, <2>2, <3>1, <3>4 DEF ReadsAs
    <3>7. Shape(D0, {}) /\ ListOf(D0) = L \cup {q} /\ OrphansOf(D0, {}) = {q}
      <4>1. Shape(disk, {}) /\ OrphansOf(disk, {}) = {} /\ p \in ListOf(disk) /\ q \notin ListOf(disk)
        BY <1>2, <1>3, <2>2
      <4>2. Links(disk, D0, p, q)
        BY <2>2, <3>5, <3>6 DEF Links
      <4>3. Joined(disk, D0, {}, q)
        BY <2>2, <4>1, <4>2, Linked
      <4> QED
        BY <1>2, <4>1, <4>3 DEF Joined
    <3>8. /\ DiskType(D) /\ D[p] = Content(Xor(disk[p].delta, Change(gstate, Zero)), es, q, FALSE)
          /\ \A r \in Pairs \ {p} : D[r] = disk[r]
      <4> DEFINE sp == FALSE
      <4>1. q \in Pairs \cup {NoPair} /\ sp \in BOOLEAN
        BY <2>2
      <4> HIDE DEF sp
      <4>2. LET U == Updated(p, es, q, sp, gstate, Zero) IN
            /\ DiskType(U) /\ U[p] = Content(Xor(disk[p].delta, Change(gstate, Zero)), es, q, sp)
            /\ \A r \in Pairs \ {p} : U[r] = disk[r]
        BY <1>2, <3>1, <3>3, <4>1, ZeroTyped, UpdatedTyped
      <4> QED
        BY <4>2 DEF sp
    <3> HIDE DEF D
    <3>9. EntriesOf(p, D0, D) /\ D[p].entries = InsertAt(D0[p].entries, j, x)
      <4>1. ListOf(D0) \subseteq Pairs
        BY <1>2, <2>2, <3>7
      <4>2. ReadsAs(D, D0, ListOf(D0) \ {p})
        BY <3>4, <3>8, <4>1 DEF ReadsAs
      <4>3. D[p].entries = es /\ D[p].tail = q /\ D[p].split = FALSE
        BY <3>8 DEF Content
      <4>4. EntriesOf(p, D0, D)
        BY <3>6, <4>2, <4>3 DEF EntriesOf
      <4>5. es = InsertAt(D0[p].entries, j, x)
        BY <3>6 DEF es
      <4> QED
        BY <4>3, <4>4, <4>5
    <3>10. p \in Owned(D0, {})
      BY <1>3, <3>1, <3>7 DEF OrphansOf
    <3>11. Shape(D, {}) /\ ListOf(D) = L \cup {q} /\ OrphansOf(D, {}) = {}
      <4>1. /\ Shape(D, {}) /\ ListOf(D) = ListOf(D0)
            /\ OrphansOf(D, {}) = OrphansOf(D0, {}) \ {x.obj}
        <5>1. j \in 1..(Len(D0[p].entries) + 1) /\ (x.obj \in Pairs => x.obj \in OrphansOf(D0, {}))
          BY <1>3, <3>2, <3>6, <3>7
        <5>2. Shape(D0, {}) /\ DiskType(D) /\ EntriesOf(p, D0, D) /\ x \in EntryType
          BY <3>2, <3>7, <3>8, <3>9
        <5>3. D[p].entries = InsertAt(D0[p].entries, j, x)
          BY <3>9
        <5> QED
          BY <3>10, <5>1, <5>2, <5>3, Inserted
      <4> QED
        BY <3>2, <3>7, <4>1
    <3>12. ListOf(D) \subseteq Used /\ GatherOf(disk, ListOf(D)) = Xor(Masked(gdisk), Zero)
      <4>1. L \cup New \subseteq Used
        BY <1>2, ListUsed
      <4>2. Masked(gdisk) \in Deltas
        BY <1>2, MaskedTyped
      <4> QED
        BY <1>2, <1>3, <3>11, <4>1, <4>2, XorZero DEF Sum
    <3>13. /\ D = Updated(p, es, q, FALSE, gstate, Zero) /\ Commit(p, es, q, FALSE, gstate, Zero, 0)
           /\ Shape(D, gstate.moves) /\ p \in ListOf(D) /\ (\A m \in gstate.moves : m[1] # p)
      BY <1>2, <1>3, <1>5, <3>1, <3>11 DEF D
    <3>14. Through(gstate, 0, OrphansOf(D, gstate.moves))
      BY <1>2, <3>1, <3>12, <3>13, ZeroTyped, Committed
    <3> QED
      BY <1>2, <1>3, <3>11, <3>14
  <2> QED
    BY <1>4, <2>1, <2>2
<1>7. gstate.orphans - 0 \in Nat
  BY <1>2 DEF States
<1>8. Orphaned' = {}
  BY <1>2, <1>6, AfterIs
<1>9. PcOK'
  BY <1>5, <1>8 DEF PcOK
<1>10. New' \subseteq L' /\ found' \in Nat
  BY <1>2, <1>5 DEF New
<1> QED
  BY <1>2, <1>6, <1>7, <1>9, <1>10, AfterCommit
\* Renaming entry i of p, a file's or a directory's, that is not moved below itself.
LEMMA RenameEntryInv ==
  ASSUME Undisturbed, IInv, pc = "ready", NEW p \in L, NEW i \in DOMAIN disk[p].entries,
         NEW d2 \in Reached, NEW n2 \in Names, RenameEntry(<<p, i>>, d2, n2)
  PROVE  IInv'
<1>1. /\ Still /\ Shape(disk, {}) /\ gstate.moves = {} /\ gdisk.moves = {} /\ OrphansOf(disk, {}) = {}
      /\ gstate \in States /\ found \in Nat /\ L = ListOf(disk) /\ L \subseteq Pairs
  BY ReadyIs
<1>2. /\ Undisturbed /\ Calm /\ kin = {} /\ gdelta = Zero /\ DiskType(disk) /\ gdisk \in States
      /\ L \subseteq Used /\ GatherOf(disk, L) = Xor(Masked(gdisk), Zero) /\ Threaded(disk)
      /\ Named(disk)
  BY <1>1, StillIs DEF Shape
<1>3. d2 \in L
  <2>1. Root \in ListOf(disk)
    BY <1>2, ListClosed
  <2> QED
    BY <1>1, <1>2, <2>1, HeadsUnder DEF Reached
<1>4. PICK s, j : /\ Place(d2, n2) = <<s, j>> /\ s \in WalkOf(disk, d2, TRUE) /\ s \in L
                  /\ j \in 1..(Len(disk[s].entries) + 1)
  BY <1>1, <1>2, <1>3, PlaceIs
<1> DEFINE o == disk[p].entries[i].obj
           x == [name |-> n2, obj |-> o]
           rep == IsThere(<<s, j>>, n2)
           prev == IF rep THEN {disk[s].entries[j].obj} ELSE {}
           dirs == prev \cap Pairs
           put == IF rep THEN ReplaceAt(disk[s].entries, j, x) ELSE InsertAt(disk[s].entries, j, x)
           at == IF rep THEN i ELSE Shifted(s, j, p, i)
           all == IF p = s THEN RemoveAt(put, at) ELSE put
           n == Cardinality(dirs)
           g == [orphans |-> gstate.orphans + n, moves |-> IF p = s THEN {} ELSE {<<p, i>>}]
           t == disk[s].tail
           sp == disk[s].split
<1>5. /\ rep => j \in DOMAIN disk[s].entries /\ <<s, j>> # <<p, i>>
      /\ d2 \notin Under(o) /\ \A r \in dirs : IsEmptyDir(r)
      /\ Commit(s, all, t, sp, g, Zero, IF p = s THEN n ELSE 0)
      /\ LET next == IF p # s THEN "delete_source" ELSE IF dirs # {} THEN "unlink" ELSE "idle" IN
         /\ pc' = next
         /\ op' = IF next = "idle" THEN [kind |-> "none"]
                  ELSE [kind |-> "rename", at |-> <<p, i>>, dirs |-> dirs]
         /\ found' = found
  <2>1. <<p, i>>[1] = p /\ <<p, i>>[2] = i /\ <<s, j>>[1] = s /\ <<s, j>>[2] = j
    OBVIOUS
  <2>2. Obj(<<p, i>>) = o /\ Obj(<<s, j>>) = disk[s].entries[j].obj
    BY DEF Obj
  <2>3. (prev = {}) <=> ~rep
    OBVIOUS
  <2>4. rep \in BOOLEAN
    BY DEF IsThere
  <2>5. rep => j \in DOMAIN disk[s].entries
    BY <2>1 DEF IsThere
  <2> HIDE DEF rep
  <2> QED
    BY <1>1, <1>2, <1>4, <2>1, <2>2, <2>3, <2>4, <2>5, NoFail DEF RenameEntry, Insert, Goto, Shifted, rep
<1>6. p \in Pairs /\ s \in Pairs /\ disk[s].entries \in Seq(EntryType)
      /\ t \in Pairs \cup {NoPair} /\ sp \in BOOLEAN /\ disk[p].entries[i] \in EntryType
  BY <1>1, <1>2, <1>4, DiskTyped
<1>7. x \in EntryType /\ x.obj = o /\ rep \in BOOLEAN
  BY <1>6 DEF EntryType, IsThere
<1>8. o \in Pairs => s \notin OwnedFrom(disk, {}, o)
  <2> SUFFICES ASSUME o \in Pairs PROVE s \notin OwnedFrom(disk, {}, o)
    OBVIOUS
  <2>1. o \in Below(disk, {}, p)
    BY DEF Below
  <2> HIDE DEF o
  <2>2. o \in ListOf(disk) /\ HeadIn(disk, o)
    BY <1>1, <2>1, BelowHeads
  <2> QED
    BY <1>1, <1>2, <1>4, <1>5, <2>2, NotBelow
<1>9. rep => /\ j \in DOMAIN disk[s].entries /\ <<s, j>> # <<p, i>>
             /\ disk[s].entries[j].obj \in Pairs => EmptyIn(disk, disk[s].entries[j].obj)
  <2>1. rep => \A r \in {disk[s].entries[j].obj} \cap Pairs : IsEmptyDir(r)
    BY <1>5
  <2> HIDE DEF rep
  <2> QED
    BY <1>5, <2>1 DEF IsEmptyDir, EmptyIn
<1>10. put \in Seq(EntryType)
  <2>1. CASE rep
    <3> HIDE DEF rep, x
    <3>1. j \in 1..Len(disk[s].entries)
      BY <1>6, <1>9, <2>1
    <3>2. ReplaceAt(disk[s].entries, j, x) \in Seq(EntryType)
      BY <1>6, <1>7, <3>1, ReplaceIs
    <3> QED
      BY <2>1, <3>2
  <2>2. CASE ~rep
    <3> HIDE DEF rep, x
    <3>1. InsertAt(disk[s].entries, j, x) \in Seq(EntryType)
      BY <1>4, <1>6, <1>7, InsertIs
    <3> QED
      BY <2>2, <3>1
  <2> QED
    BY <2>1, <2>2
<1>11. n = (IF dirs = {} THEN 0 ELSE 1) /\ (dirs # {} => \E r \in Pairs : dirs = {r})
  <2>1. CASE dirs = {}
    BY <2>1, FS_EmptySet
  <2>2. CASE dirs # {}
    <3>1. dirs = {disk[s].entries[j].obj} /\ disk[s].entries[j].obj \in Pairs
      <4> HIDE DEF rep
      <4> QED
        BY <2>2
    <3> HIDE DEF dirs
    <3>2. Cardinality(dirs) = 1
      BY <3>1, FS_Singleton
    <3> QED
      BY <2>2, <3>1, <3>2
  <2> QED
    BY <2>1, <2>2
<1> HIDE DEF n
<1>12. /\ g \in States /\ g.orphans = gstate.orphans + n /\ g.moves = (IF p = s THEN {} ELSE {<<p, i>>})
       /\ g.orphans \in Nat /\ g.orphans - n \in Nat /\ g.orphans - 0 = g.orphans
       /\ dirs # {} => g.orphans > 0
  <2>1. i \in Nat \ {0} /\ gstate.orphans \in Nat
    BY <1>1, <1>2, <1>6, EntryPlace DEF States
  <2> HIDE DEF dirs
  <2> QED
    BY <1>6, <1>11, <2>1 DEF States
<1> HIDE DEF g
<1> DEFINE E(D) == /\ DiskType(D) /\ EntriesOf(s, disk, D) /\ D[s].entries = put
           M(D) == /\ Shape(D, {<<p, at>>}) /\ ListOf(D) = L
                   /\ OrphansOf(D, {<<p, at>>}) = dirs /\ at \in DOMAIN D[p].entries
\* What Moved says of the pair with the new entry in it.
<1>13. ASSUME NEW D, E(D) PROVE M(D)
  <2>1. D[s].entries = IF rep THEN ReplaceAt(disk[s].entries, j, x) ELSE InsertAt(disk[s].entries, j, x)
    BY <1>13
  <2>2. dirs = IF rep THEN {disk[s].entries[j].obj} \cap Pairs ELSE {}
    <3> HIDE DEF rep
    <3> QED
      OBVIOUS
  <2>3. at = IF rep THEN i ELSE Shifted(s, j, p, i)
    OBVIOUS
  <2>4. DiskType(D) /\ EntriesOf(s, disk, D)
    BY <1>13
  <2>5. x.obj = disk[p].entries[i].obj /\ (x.obj \in Pairs => s \notin OwnedFrom(disk, {}, x.obj))
    BY <1>8
  <2>6. p \in ListOf(disk) /\ s \in ListOf(disk) /\ i \in DOMAIN disk[p].entries
    BY <1>1, <1>4
  <2> HIDE DEF rep, x, at, dirs
  <2>7. Copies(disk, p, i, s, j, x, rep, D, at, dirs)
    BY <1>4, <1>7, <1>9, <2>1, <2>2, <2>3, <2>4, <2>5, <2>6 DEF Copies
  <2>8. Copied(disk, p, D, at, dirs)
    BY <1>1, <2>7, Moved
  <2> QED
    BY <1>1, <2>8 DEF Copied
<1>14. CASE p # s
  <2> DEFINE D == Updated(s, put, t, sp, g, Zero)
  <2>1. /\ DiskType(D) /\ D[s] = Content(Xor(disk[s].delta, Change(g, Zero)), put, t, sp)
        /\ \A r \in Pairs \ {s} : D[r] = disk[r]
    <3>1. D = Updated(s, put, t, sp, g, Zero)
      OBVIOUS
    <3> HIDE DEF D, put, t, sp
    <3> QED
      BY <1>2, <1>6, <1>10, <1>12, <3>1, ZeroTyped, UpdatedTyped
  <2> HIDE DEF D
  <2>2. E(D)
    BY <1>1, <1>6, <2>1 DEF EntriesOf, ReadsAs, Content
  <2>3. at = i /\ all = put /\ g.moves = {<<p, i>>}
    BY <1>12, <1>14 DEF Shifted
  <2>4. M(D)
    BY <1>13, <2>2
  <2>5. /\ Shape(D, g.moves) /\ ListOf(D) = L /\ OrphansOf(D, g.moves) = dirs
        /\ \A m \in g.moves : m[1] # s
    BY <1>14, <2>3, <2>4
  <2>6. Commit(s, put, t, sp, g, Zero, 0) /\ D = Updated(s, put, t, sp, g, Zero)
    BY <1>5, <1>14, <2>3 DEF D
  <2> HIDE DEF put, t, sp, dirs, E, M, at, all
  <2>7. Through(g, 0, dirs)
    BY <1>2, <1>4, <1>6, <1>10, <1>12, <2>5, <2>6, ZeroTyped, Committed
  <2>8. /\ Orphaned' = dirs /\ gdisk' = g /\ gstate'.orphans = g.orphans - 0
    BY <1>12, <2>7, AfterIs
  <2>9. /\ pc' = "delete_source" /\ op'.at = <<p, i>> /\ op'.dirs = dirs /\ found' = found
    BY <1>5, <1>14
  <2>10. PcOK'
    <3>1. gdisk'.moves = {op'.at} /\ Orphaned' = op'.dirs
      BY <2>3, <2>8, <2>9
    <3>2. op'.dirs = {} \/ (gstate'.orphans > 0 /\ gdisk'.orphans > 0 /\ \E r \in Pairs : op'.dirs = {r})
      BY <1>11, <1>12, <2>8, <2>9
    <3> QED
      BY <2>9, <3>1, <3>2 DEF PcOK
  <2>11. New' \subseteq L' /\ found' \in Nat
    BY <1>1, <2>9 DEF New
  <2>12. g.orphans - 0 \in Nat
    BY <1>12
  <2> QED
    BY <1>12, <2>7, <2>10, <2>11, <2>12, AfterCommit
<1>15. CASE p = s
  <2> DEFINE D0 == [disk EXCEPT ![s].entries = put]
             D == Updated(s, RemoveAt(put, at), t, sp, g, Zero)
  <2>1. /\ DiskType(D0) /\ D0[s].entries = put /\ D0[s].tail = t /\ D0[s].split = sp
        /\ \A r \in Pairs \ {s} : D0[r] = disk[r]
    <3>1. disk[s] \in PairType /\ disk \in [Pairs -> PairType]
      BY <1>2, <1>6 DEF DiskType
    <3> HIDE DEF put
    <3>2. [disk[s] EXCEPT !.entries = put] \in PairType
      BY <1>10, <3>1 DEF PairType
    <3>3. D0 = [disk EXCEPT ![s] = [disk[s] EXCEPT !.entries = put]]
      OBVIOUS
    <3>4. D0[s] = [disk[s] EXCEPT !.entries = put] /\ DiskType(D0) /\ \A r \in Pairs \ {s} : D0[r] = disk[r]
      BY <1>6, <3>1, <3>2, <3>3 DEF DiskType
    <3> HIDE DEF D0
    <3> QED
      BY <3>1, <3>4 DEF PairType
  <2> HIDE DEF D0
  <2>2. E(D0)
    BY <1>1, <1>6, <2>1 DEF EntriesOf, ReadsAs
  <2>3. all = RemoveAt(put, at) /\ g.moves = {} /\ p = s
    BY <1>12, <1>15
  <2>4. M(D0)
    BY <1>13, <2>2
  <2>5. /\ Shape(D0, {<<s, at>>}) /\ ListOf(D0) = L /\ OrphansOf(D0, {<<s, at>>}) = dirs
        /\ at \in DOMAIN D0[s].entries /\ s \in ListOf(D0)
    BY <1>4, <2>3, <2>4
  <2>6. Commit(s, RemoveAt(put, at), t, sp, g, Zero, n) /\ D = Updated(s, RemoveAt(put, at), t, sp, g, Zero)
    BY <1>5, <2>3
  <2> HIDE DEF D, put, t, sp, dirs, E, M, at, all
  <2>7. at \in 1..Len(put)
    BY <1>6, <1>10, <2>1, <2>5, EntryPlace
  <2>8. RemoveAt(put, at) \in Seq(EntryType)
    BY <1>10, <2>7, RemoveIs
  <2>9. /\ DiskType(D) /\ D[s] = Content(Xor(disk[s].delta, Change(g, Zero)), RemoveAt(put, at), t, sp)
        /\ \A r \in Pairs \ {s} : D[r] = disk[r]
    BY <1>2, <1>6, <1>12, <2>6, <2>8, ZeroTyped, UpdatedTyped
  <2>10. EntriesOf(s, D0, D) /\ D[s].entries = RemoveAt(D0[s].entries, at)
    BY <1>1, <2>1, <2>5, <2>9 DEF EntriesOf, ReadsAs, Content
  <2>11. Shape(D, {}) /\ ListOf(D) = L /\ OrphansOf(D, {}) = dirs
    BY <2>5, <2>9, <2>10, Deleted
  <2>12. /\ Shape(D, g.moves) /\ s \in ListOf(D) /\ (\A m \in g.moves : m[1] # s)
         /\ OrphansOf(D, g.moves) = dirs
    BY <1>4, <2>3, <2>11
  <2>13. Through(g, n, dirs)
    BY <1>2, <1>6, <1>12, <2>6, <2>8, <2>11, <2>12, ZeroTyped, Committed
  <2>14. Orphaned' = dirs /\ gdisk' = g
    BY <1>12, <2>13, AfterIs
  <2>15. /\ pc' = (IF dirs # {} THEN "unlink" ELSE "idle") /\ found' = found
         /\ dirs # {} => op'.dirs = dirs
    BY <1>5, <2>3
  <2>16. PcOK'
    <3>1. CASE dirs = {}
      BY <2>14, <2>15, <3>1 DEF PcOK
    <3>2. CASE dirs # {}
      BY <1>11, <1>12, <2>3, <2>14, <2>15, <3>2 DEF PcOK
    <3> QED
      BY <3>1, <3>2
  <2>17. New' \subseteq L' /\ found' \in Nat
    BY <1>1, <2>15 DEF New
  <2> QED
    BY <1>12, <2>13, <2>16, <2>17, AfterCommit
<1> QED
  BY <1>14, <1>15

\* A call at the place its name has.
LEMMA CallInv == ASSUME Undisturbed, IInv, Call PROVE IInv'
<1>1. pc = "ready"
  BY DEF Call
<1>2. /\ Still /\ Shape(disk, {}) /\ gdisk.moves = {} /\ L = ListOf(disk)
      /\ DiskType(disk) /\ Threaded(disk) /\ Named(disk)
  BY <1>1, ReadyIs, InvIs DEF Shape
<1>3. Root \in L
  BY <1>2, ListClosed
<1>4. PICK d \in Reached, n \in Names :
        LET e == Place(d, n) IN
        IF IsThere(e, n)
        THEN \/ RemoveEntry(e)
             \/ \E d2 \in Reached, n2 \in Names : RenameEntry(e, d2, n2)
        ELSE \/ \E f \in Files \ {l.obj : l \in Visible} : Create(e, n, f)
             \/ Mkdir(e, n)
  BY DEF Call
<1>5. d \in L
  BY <1>2, <1>3, HeadsUnder DEF Reached
<1>6. PICK p \in L, i \in 1..(Len(disk[Place(d, n)[1]].entries) + 1) : Place(d, n) = <<p, i>>
  BY <1>2, <1>5, PlaceIs
<1> DEFINE e == <<p, i>>
<1>7. e[1] = p /\ e[2] = i /\ At(e)
  BY <1>6 DEF At
<1>8. CASE IsThere(e, n)
  <2>1. i \in DOMAIN disk[p].entries
    BY <1>7, <1>8 DEF IsThere
  <2>2. CASE RemoveEntry(e)
    BY <1>1, <1>7, <2>1, <2>2, RemoveEntryInv
  <2>3. ASSUME NEW d2 \in Reached, NEW n2 \in Names, RenameEntry(e, d2, n2) PROVE IInv'
    BY <1>1, <2>1, <2>3, RenameEntryInv
  <2> QED
    BY <1>4, <1>6, <1>8, <2>2, <2>3
<1>9. CASE ~IsThere(e, n)
  <2>1. ASSUME NEW f \in Files, Create(e, n, f) PROVE IInv'
    <3> HIDE DEF e
    <3> QED
      BY <1>1, <1>7, <2>1, CreateInv
  <2>2. CASE Mkdir(e, n)
    <3> HIDE DEF e
    <3> QED
      BY <1>1, <1>7, <2>2, MkdirInv
  <2> QED
    BY <1>4, <1>6, <1>9, <2>1, <2>2
<1> QED
  BY <1>8, <1>9

\* Nothing is relocated, so there is nothing to link again.
LEMMA NotRelinking == ASSUME Undisturbed, IInv PROVE ~Relinking /\ ~FixHalfOrphan
<1>1. reloc = [stage |-> "none"] /\ HalfLinks = {}
  BY InvIs, NoHalves DEF None
<1> QED
  BY <1>1 DEF Relinking, RelinkParent, RelinkPred, RelinkRest, Relinked, FixHalfOrphan

LEMMA StutterInv == ASSUME Undisturbed, IInv, UNCHANGED vars PROVE IInv'
<1>1. /\ disk' = disk /\ gstate' = gstate /\ gdisk' = gdisk /\ gdelta' = gdelta /\ found' = found
      /\ pc' = pc /\ op' = op /\ reloc' = reloc /\ kin' = kin /\ relocs' = relocs /\ fails' = fails
  BY DEF vars
<1>2. L' = L /\ Orphaned' = Orphaned /\ New' = New
  BY <1>1 DEF L, Orphaned, New
<1>3. Calm' /\ GlobalOK' /\ Shape(disk, gdisk.moves)' /\ Sum'
  BY <1>1, <1>2 DEF IInv, Calm, GlobalOK, Sum
<1>4. PcOK'
  BY <1>1, <1>2 DEF IInv, PcOK, At, NewBehind
<1> QED
  BY <1>3, <1>4 DEF IInv

\* Every step keeps the invariant.
LEMMA NextInv == ASSUME Undisturbed, IInv, [Next]_vars PROVE IInv'
<1>1. CASE Begin
  BY <1>1, BeginInv
<1>2. CASE Demove
  BY <1>2, DemoveInv
<1>3. CASE FixHalfOrphan
  BY <1>3, NotRelinking
<1>4. CASE FixOrphan
  BY <1>4, FixOrphanInv
<1>5. CASE DeorphanDone
  BY <1>5, DeorphanDoneInv
<1>6. CASE MkdirPred
  BY <1>6, MkdirPredInv
<1>7. CASE MkdirParent
  BY <1>7, MkdirParentInv
<1>8. CASE Unlink
  BY <1>8, UnlinkInv
<1>9. CASE DeleteSource
  BY <1>9, DeleteSourceInv
<1>10. CASE Refuse
  BY <1>10, RefuseInv
<1>11. CASE Call
  BY <1>11, CallInv
<1>12. CASE Relinking
  BY <1>12, NotRelinking
<1>13. CASE Crash
  BY <1>13, CrashInv
<1>14. CASE UNCHANGED vars
  BY <1>14, StutterInv
<1> QED
  BY <1>1, <1>2, <1>3, <1>4, <1>5, <1>6, <1>7, <1>8, <1>9, <1>10, <1>11, <1>12, <1>13, <1>14
     DEF Next, Step

LEMMA GatherNone == \A D : GatherOf(D, {}) = Zero
<1> SUFFICES ASSUME NEW D, NEW S PROVE S = {} => GatherOf(D, S) = Zero
  OBVIOUS
<1>0. GatherOf(D, S).orphan = Odd({p \in S : D[p].delta.orphan})
  BY GatherIs
<1>1. \A m : m \in GatherOf(D, S).moves <=> Odd({p \in S : m \in D[p].delta.moves})
  BY GatherIs, Zenon
<1>2. S = {} => ~Odd({p \in S : D[p].delta.orphan}) /\ \A m : ~Odd({p \in S : m \in D[p].delta.moves})
  BY OddSome
<1>3. S = {} => GatherOf(D, S).orphan = FALSE /\ GatherOf(D, S).moves = {}
  BY <1>0, <1>1, <1>2 DEF Odd
<1> QED
  BY <1>3 DEF GatherOf, Zero

\* A formatted volume: one pair, nothing in it.
LEMMA InitInv == ASSUME Init PROVE IInv
<1>1. /\ disk = [p \in Pairs |-> Blank] /\ gstate = Unmasked(Zero) /\ gdisk = Unmasked(Zero)
      /\ gdelta = Zero /\ found = 0 /\ pc = "idle" /\ reloc = None /\ kin = {}
      /\ relocs = 0 /\ fails = 0
  BY DEF Init
<1>2. /\ Unmasked(Zero) \in States /\ Unmasked(Zero).moves = {} /\ Masked(Unmasked(Zero)) = Zero
  BY ZeroTyped, MaskedUnmasked DEF Zero
<1>3. DiskType(disk)
  <2>1. << >> \in Seq(EntryType)
    OBVIOUS
  <2>2. Blank \in PairType
    BY <2>1, ZeroTyped DEF Blank, PairType
  <2> QED
    BY <1>1, <2>2 DEF DiskType
<1>4. \A p \in Pairs : /\ disk[p].entries = <<>> /\ disk[p].tail = NoPair /\ disk[p].split = FALSE
                       /\ disk[p].delta = Zero /\ DOMAIN disk[p].entries = {}
  BY <1>1 DEF Blank
<1>5. L = {Root} /\ ListOf(disk) = {Root} /\ Root \in Pairs
  <2>1. Root \in Pairs /\ Root \in ListOf(disk)
    BY <1>3, RootTyped, ListClosed
  <2>2. {Root} \in SUBSET Pairs /\ Root \in {Root}
        /\ \A q \in {Root} : disk[q].tail # NoPair => disk[q].tail \in {Root}
    BY <1>4, <2>1
  <2>3. ListOf(disk) \subseteq {Root}
    BY <2>2, ListLeast
  <2> QED
    BY <2>1, <2>3 DEF L
<1>6. OrphansOf(disk, {}) = {}
  <2>1. Root \in Owned(disk, {})
    BY <1>3, OwnedIs
  <2> QED
    BY <1>5, <2>1 DEF OrphansOf
<1>7. Shape(disk, {})
  <2>1. Threaded(disk) /\ Named(disk) /\ NamedOnce(disk, {})
    BY <1>4, <1>5, RootTyped DEF Threaded, Named, NamedOnce
  <2>2. OneMove(disk, {}) /\ OrphansEmpty(disk, {})
    BY <1>6 DEF OneMove, OrphansEmpty
  <2> QED
    BY <1>3, <2>1, <2>2 DEF Shape
<1>8. gdisk.moves = {} /\ Orphaned = {} /\ New = {}
  BY <1>1, <1>2, <1>6 DEF Orphaned, New
<1>9. Sum
  <2>1. GatherOf(disk, {}) = Zero
    BY GatherNone
  <2>2. GatherOf(disk, {} \cup {Root}) = Xor(GatherOf(disk, {}), disk[Root].delta)
    BY <1>3, <1>5, GatherAdd
  <2>3. Xor(Zero, Zero) = Zero
    BY ZeroTyped, XorZero
  <2>4. L \cup New = {} \cup {Root}
    BY <1>5, <1>8
  <2> QED
    BY <1>1, <1>2, <1>4, <1>5, <2>1, <2>2, <2>3, <2>4 DEF Sum
<1>10. Calm /\ GlobalOK /\ PcOK
  BY <1>1, <1>2, <1>8 DEF Calm, GlobalOK, PcOK
<1> QED
  BY <1>7, <1>8, <1>9, <1>10 DEF IInv

-----------------------------------------------------------------------------
(* What holds of every volume on which no pair is relocated and the device *)
(* answers, however often power is lost.                                   *)

\* The inductive invariant: the shape of the list and the tree on it, the
\* deltas that add up, and what each operation leaves half done.
THEOREM AlwaysShaped == Undisturbed => (Spec => []IInv)
<1> SUFFICES ASSUME Undisturbed PROVE Spec => []IInv
  OBVIOUS
<1>1. Init => IInv
  BY InitInv
<1>2. IInv /\ [Next]_vars => IInv'
  BY NextInv
<1> QED
  BY <1>1, <1>2, PTL DEF Spec

\* The deltas of the pairs on the list add up to the global state last written,
\* so that a mount finds the move and the orphans an operation has left
\* (lfs_dir_getgstate, lfs_raw_mount).
THEOREM MountAlwaysFindsGstate == Undisturbed => (Spec => []MountFindsGstate)
BY AlwaysShaped, MountFinds, PTL

\* Every pair that names lead to is on the list the allocator and mount walk,
\* in the middle of every operation too (lfs_fs_rawtraverse).
THEOREM ListAlwaysComplete == Undisturbed => (Spec => []ListIsComplete)
BY AlwaysShaped, ListComplete, PTL

\* A directory no name leads to is empty and announced on the storage, whenever
\* power may be lost (lfs_fs_preporphans).
THEOREM OrphansAlwaysAnnounced == Undisturbed => (Spec => []OrphansAnnounced)
BY AlwaysShaped, Announced, PTL

\* When the repair in front of an operation is done, no pair leaks and no move
\* is pending (lfs_fs_forceconsistency).
THEOREM RepairAlwaysComplete == Undisturbed => (Spec => []RepairIsComplete)
BY AlwaysShaped, RepairComplete, PTL

\* What the repair has still to take off the list.
LEMMA LeftIs ==
  ASSUME IInv
  PROVE  List \ Directories = Orphaned /\ Orphaned \in SUBSET Pairs
<1>1. /\ kin = {} /\ DiskType(disk) /\ L \subseteq Pairs /\ L = ListOf(disk)
  BY ListClosed DEF IInv, Calm, Shape, L
<1>2. List = L /\ Directories = Owned(disk, gdisk.moves)
  BY <1>1, Quiet, DirectoriesAre
<1> QED
  BY <1>1, <1>2 DEF Orphaned, OrphansOf

LEMMA LeftImplied == IInv => List \ Directories = Orphaned
BY LeftIs

\* A round of the repair that goes on takes an orphan off.
LEMMA RoundTakesOne ==
  ASSUME Undisturbed, IInv, [Next]_vars, pc = "deorphan", pc' = "deorphan",
         UNCHANGED vars => FALSE
  PROVE  \E p \in Orphaned : Orphaned' = Orphaned \ {p}
<1>1. /\ gstate \in States /\ gdisk \in States
      /\ Shape(disk, gdisk.moves) /\ Orphaned = OrphansOf(disk, gdisk.moves) /\ kin = {}
      /\ gstate.moves = gdisk.moves /\ PcOK
  BY InvIs
<1>2. New = {} /\ Still /\ gdisk.moves = {}
  BY <1>1, InvIs DEF New, PcOK
<1>3. FixOrphan
  BY NotRelinking
     DEF Next, Step, Begin, Demove, DeorphanDone, MkdirPred, MkdirParent, Unlink, DeleteSource,
         Refuse, Call, Crash
<1>4. FullOrphans = Orphaned
  BY <1>1, FullOrphansAre
<1>5. PICK p \in Orphaned : \E q \in Preds(p) : Skip(q, p, gstate, 0)
  BY <1>3, <1>4, NoFail DEF FixOrphan
<1>6. Through(gstate, 0, Orphaned \ {p})
  BY <1>1, <1>2, <1>5, OrphanLeaves
<1> QED
  BY <1>1, <1>6, AfterIs

\* Every round of the repair that does not end it leaves fewer pairs on the list
\* that no name leads to (lfs_fs_deorphan).
THEOREM RepairAlwaysDescends == Undisturbed => (Spec => RepairDescends)
<1> SUFFICES ASSUME Undisturbed PROVE Spec => RepairDescends
  OBVIOUS
<1>1. IInv' => (List \ Directories = Orphaned)'
  BY LeftImplied, PTL
<1>2. ASSUME IInv, IInv', [Next]_vars, ~UNCHANGED vars, pc = "deorphan", pc' = "deorphan"
      PROVE  Cardinality(List' \ Directories') < Cardinality(List \ Directories)
  <2>1. List \ Directories = Orphaned /\ Orphaned \in SUBSET Pairs
    BY <1>2, LeftIs
  <2>2. PICK p \in Orphaned : Orphaned' = Orphaned \ {p}
    BY <1>2, RoundTakesOne
  <2>3. List' \ Directories' = Orphaned \ {p}
    BY <1>1, <1>2, <2>2
  <2>4. Orphaned \ {p} \in SUBSET Orphaned /\ Orphaned \ {p} # Orphaned
    OBVIOUS
  <2>5. Cardinality(Orphaned \ {p}) < Cardinality(Orphaned)
    BY <2>1, <2>4, Less
  <2> QED
    BY <2>1, <2>3, <2>5
<1>3. IInv /\ IInv' /\ [Next]_vars
      => [pc = "deorphan" /\ pc' = "deorphan" /\ reloc = None /\ reloc' = None
            => Cardinality(List' \ Directories') < Cardinality(List \ Directories)]_vars
  BY <1>2
<1> QED
  BY <1>3, AlwaysShaped, PTL DEF Spec, RepairDescends
=============================================================================
