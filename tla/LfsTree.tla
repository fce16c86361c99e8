------------------------------- MODULE LfsTree --------------------------------
(***************************************************************************)
(* The directory tree: how mkdir, create, remove and rename are built out  *)
(* of commits to single metadata pairs, what a mount finds when power was  *)
(* lost between two of those commits, and how it is repaired.              *)
(*                                                                         *)
(* A directory is a chain of metadata pairs: the head, named by its        *)
(* parent's entry, and the pairs its hard tails ("split") lead to.  All    *)
(* pairs of the file system are also threaded on one list, from the root   *)
(* along the tails; the allocator and mount know a pair only by this list. *)
(* An operation that spans pairs announces what it is doing in the global  *)
(* state: "orphans", some pair is on the list without a parent, and a      *)
(* move, the position of an entry that has been copied and must go.  A     *)
(* pair stores a difference (delta), and the state is their exclusive or   *)
(* over the list, so a commit to any pair can change it.                   *)
(*                                                                         *)
(* Abstracted: a commit to one pair is atomic, which is what LfsMdir shows *)
(* of it; a pair holds Cap entries and splits beyond them, at any place,   *)
(* or else is relocated when a block of it is worn or bad; the two 64-bit  *)
(* words and the tag of a move are a set that exclusive or combines; the   *)
(* superblock entry of the root is left out, so the root, which never      *)
(* empties in the code, may be empty here; a path is the directory it      *)
(* leads to and a last name.                                               *)
(*                                                                         *)
(* A pair that is relocated keeps one of its blocks.  Here the new pair is *)
(* another member of Pairs, and "kin" tells which pairs have a block in    *)
(* common; what still links the old pair reads the old contents.           *)
(***************************************************************************)
EXTENDS Naturals, FiniteSetsExt, SequencesExt

CONSTANTS
  Names,     \* names of entries, ordered: a set of numbers
  Files,     \* files
  Pairs,     \* metadata pairs
  Root,      \* the pair the root directory begins in
  NoPair,    \* LFS_BLOCK_NULL twice
  Directory, \* what a name stands for that is not a file's
  Cap,       \* entries that fit a pair
  MaxCalls,  \* operations called (bound)
  MaxRelocs, \* pairs relocated (bound)
  Relocating, \* which: "heads" of directories, "tails" behind them, "unseen"
  MaxFails   \* commits that end with an error of the device (bound)

ASSUME TreeAssumption ==
  /\ Names \subseteq Nat
  /\ IsFiniteSet(Pairs)
  /\ Root \in Pairs /\ NoPair \notin Pairs \cup Files
  /\ Files \cap Pairs = {}
  /\ Cap \in Nat \ {0}
  /\ {MaxCalls, MaxRelocs, MaxFails} \subseteq Nat
  /\ Relocating \subseteq {"heads", "tails", "unseen"}

VARIABLES
  disk,     \* the pairs
  gstate,   \* lfs->gstate: what the file system wants, orphans counted
  gdisk,    \* lfs->gdisk: what it last wrote
  gdelta,   \* lfs->gdelta: stolen from pairs about to leave the list
  found,    \* orphans fixed by the running deorphan
  pc,       \* what comes next
  op,       \* the locals of the running operation
  reloc,    \* a relocated pair that is still to be linked
  kin,      \* sets of two pairs that have a block in common
  calls,    \* operations so far
  relocs,   \* relocations so far
  fails     \* errors so far

vars == <<disk, gstate, gdisk, gdelta, found, pc, op, reloc, kin, calls, relocs, fails>>
counts == <<calls, relocs, fails>>

------------------------------------------------------------------------------
(* Global state. *)

Zero == [orphan |-> FALSE, moves |-> {}]
Xor(a, b) == [orphan |-> a.orphan # b.orphan, moves |-> SymDiff(a.moves, b.moves)]

(* Of the orphan count only "there are some" is written. *)
Masked(g) == [orphan |-> g.orphans > 0, moves |-> g.moves]
Unmasked(d) == [orphans |-> IF d.orphan THEN 1 ELSE 0, moves |-> d.moves]

(* Mutant: an orphan is not announced. *)
OrphansForgotten(g, n) == g
Orphans(g, n) == [g EXCEPT !.orphans = n]
Move(g, ms) == [g EXCEPT !.moves = ms]

------------------------------------------------------------------------------
(* Pairs, directories and the list. *)

Blank == [entries |-> <<>>, tail |-> NoPair, split |-> FALSE, delta |-> Zero]

(* The pairs met by following tails from "from", hard ones only if "hard". *)
Walk(from, hard) ==
  LET next(S) == S \cup ({disk[q].tail : q \in {r \in S : hard => disk[r].split}} \ {NoPair})
      all[S \in SUBSET Pairs] == LET T == next(S) IN IF T = S THEN S ELSE all[T]
  IN all[{from}]

List == Walk(Root, FALSE)
Chain(d) == Walk(d, TRUE)
ChainEnd(p) == CHOOSE q \in Chain(p) : ~disk[q].split

(* What mount gathers: the exclusive or of the deltas on the list. *)
Gathered(ps) ==
  [orphan |-> Cardinality({p \in ps : disk[p].delta.orphan}) % 2 = 1,
   moves  |-> {m \in UNION {disk[p].delta.moves : p \in ps} :
                 Cardinality({p \in ps : m \in disk[p].delta.moves}) % 2 = 1}]

(* lfs_pair_cmp *)
Same(p, q) == p = q \/ {p, q} \in kin

(* lfs_fs_pred *)
Preds(p) == {q \in List : Same(disk[q].tail, p)}
Entries(p) == {<<p, i>> : i \in DOMAIN disk[p].entries}

(* Mutant: lookups do not know of the move. *)
ShownAll(p) == Entries(p)
(* Lookups skip the entry a pending move has copied already. *)
Shown(p) == Entries(p) \ gdisk.moves
Obj(e) == disk[e[1]].entries[e[2]].obj
Name(e) == disk[e[1]].entries[e[2]].name

(* lfs_fs_parent *)
Parents(p) == {e \in UNION {Shown(q) : q \in List} : Same(Obj(e), p)}
IsHead(p) == p # Root /\ \A q \in Preds(p) : ~disk[q].split
FullOrphans == {p \in List : IsHead(p) /\ Parents(p) = {}}
(* Heads that were relocated: the parent links the new pair, the list has  *)
(* the old one.                                                            *)
HalfOrphans == {p \in List : IsHead(p) /\ \E e \in Parents(p) : Obj(e) # p}

(* The visible tree: what names lead to, from the root.  *)
LinksOf(d) == {[name |-> Name(e), obj |-> Obj(e)] : e \in UNION {Shown(q) : q \in Chain(d)}}
NodesFrom(d) ==
  LET below(x) == IF x.obj \notin Pairs THEN {}
                  ELSE {[path |-> Append(x.path, l.name), obj |-> l.obj] : l \in LinksOf(x.obj)}
      deeper(N, k) == N \cup UNION {below(x) : x \in {y \in N : Len(y.path) = k}}
      to[k \in 0..Cardinality(Pairs)] ==
        IF k = 0 THEN {[path |-> <<>>, obj |-> d]} ELSE deeper(to[k-1], k - 1)
  IN to[Cardinality(Pairs)]
Visible == NodesFrom(Root)
Under(o) == {x.obj : x \in NodesFrom(o)} \cap Pairs
Reached == Under(Root)
Directories == UNION {Chain(d) : d \in Reached}

(* Where a name is, or where it would be inserted: the first pair of the   *)
(* directory that holds it or a greater one, else the last; names are      *)
(* sorted within it.                                                       *)
Count(p, n) == Cardinality({e \in Entries(p) : Name(e) < n})
Place(d, n) ==
  LET after == {q \in Chain(d) : \E e \in Entries(q) : Name(e) >= n}
      first == CHOOSE q \in after : \A r \in after : r \in Chain(q)
      p     == IF after = {} THEN ChainEnd(d) ELSE first
  IN <<p, Count(p, n) + 1>>
IsThere(e, n) == e[2] \in DOMAIN disk[e[1]].entries /\ Name(e) = n

------------------------------------------------------------------------------
(* Commits. *)

None == [stage |-> "none"]

(* Pairs that are written and not linked yet, and those the allocator      *)
(* finds in use, also by the entries of directories (includeorphans).      *)
New == IF pc \in {"mkdir_pred", "mkdir_parent"} THEN {op.new} ELSE {}
InFlight == New \cup (IF reloc = None THEN {} ELSE reloc.taken)
Used ==
  LET seen == List \cup InFlight IN
  seen \cup ({Obj(e) : e \in UNION {Entries(p) : p \in seen}} \cap Pairs)
FreePairs == Pairs \ Used
KinWithout(q) == {k \in kin : q \notin k}

(* A commit under the global state g writes its difference to what was     *)
(* written last, and to what the stolen deltas gd account for, on top of   *)
(* the difference the pair holds.                                          *)
Change(g, gd) == Xor(Xor(Masked(g), Masked(gdisk)), gd)

(* Pair p holds es, t and sp from now on.  Entries beyond Cap go to a new  *)
(* pair, written first and linked by the commit to p, and the new pair     *)
(* takes the difference; with no pair to be had they stay.                 *)
Content(d, es, t, sp) == [entries |-> es, tail |-> t, split |-> sp, delta |-> d]
Write(p, es, t, sp, g, gd) ==
  LET old == disk[p].delta IN
  /\ \/ /\ Len(es) <= Cap \/ FreePairs = {}
        /\ disk' = [disk EXCEPT ![p] = Content(Xor(old, Change(g, gd)), es, t, sp)]
        /\ UNCHANGED kin
     \/ /\ Len(es) > Cap
        /\ \E q \in FreePairs, k \in 1..(Len(es) - 1) :
             /\ k <= Cap /\ Len(es) - k <= Cap
             /\ disk' = [disk EXCEPT
                  ![q] = Content(Change(g, gd), SubSeq(es, k + 1, Len(es)), t, sp),
                  ![p] = Content(old, SubSeq(es, 1, k), q, TRUE)]
             /\ kin' = KinWithout(q)
  /\ gdisk' = g
  /\ gdelta' = Zero
  /\ UNCHANGED <<calls, relocs, fails>>

(* Relocating p now would miss what those who go by the list do not see:   *)
(* the difference that a new directory's own pair holds, or, in the new    *)
(* contents of a half-orphan, the only name of a pair in use or that of p; *)
(* or p, the parent of a pair being relocated, is behind that on the list. *)
Unseen(p) ==
  \/ \E q \in New : disk[q].delta # Zero
  \/ ~(Directories \subseteq Used)
  \/ \E e \in UNION {Entries(d) : d \in Directories \ List} : Same(Obj(e), p)
  \/ reloc # None /\ p \in Walk(reloc.from, FALSE)

(* Or p is relocated: what it holds from now on is written to another pair *)
(* and seen by nobody until that is linked, so the difference stays for    *)
(* the commit that links it.  The first pair is where mount looks.         *)
Relocate(p, es, t, sp, g, gd, orphans, less) ==
  /\ relocs < MaxRelocs /\ relocs' = relocs + 1
  /\ p # Root /\ Len(es) <= Cap
  /\ IF IsHead(p) THEN "heads" \in Relocating ELSE "tails" \in Relocating
  /\ Unseen(p) => "unseen" \in Relocating
  /\ \E q \in FreePairs :
       /\ disk' = [disk EXCEPT ![q] = Content(Xor(disk[p].delta, gd), es, t, sp)]
       /\ kin' = KinWithout(q) \cup {{p, q}}
       /\ reloc' = [stage |-> "parent", from |-> p, to |-> q, hasparent |-> FALSE,
                    orphans |-> orphans, less |-> less, taken |-> InFlight \cup {q}]
  /\ gstate' = g
  /\ gdelta' = Zero
  /\ UNCHANGED <<gdisk, calls, fails>>

(* lfs_dir_commit, up to a relocation.  When it is through, the operation  *)
(* takes back "less" orphans.                                              *)
Commit(p, es, t, sp, g, gd, less) ==
  \/ /\ Write(p, es, t, sp, g, gd)
     /\ gstate' = Orphans(g, g.orphans - less)
     /\ UNCHANGED reloc
  \/ Relocate(p, es, t, sp, g, gd, FALSE, less)

(* Mutant: the delta of the pair is lost. *)
SkipLosesDelta(q, p, g, less) ==
  Commit(q, disk[q].entries, disk[p].tail, disk[p].split, g, gdelta, less)
(* Mutant: the pair stays on the list. *)
SkipStays(q, p, g, less) ==
  Commit(q, disk[q].entries, disk[q].tail, disk[p].split, g, gdelta, less)
(* The list skips pair p, whose delta is stolen. *)
Skip(q, p, g, less) ==
  Commit(q, disk[q].entries, disk[p].tail, disk[p].split, g, Xor(gdelta, disk[p].delta), less)

(* A commit that deletes entry i of p; a hard tail it would leave empty is *)
(* taken off the list instead.                                             *)
CommitDelete(p, i, g, less) ==
  LET es   == RemoveAt(disk[p].entries, i)
      hard == {q \in Preds(p) : disk[q].split}
  IN IF es = <<>> /\ hard # {}
     THEN \E q \in hard : Skip(q, p, g, less)
     ELSE Commit(p, es, disk[p].tail, disk[p].split, g, gdelta, less)

(* The commit returns an error and the operation with it; what is prepared *)
(* in the global state stays prepared.                                     *)
Fail(g, gd) ==
  /\ fails < MaxFails
  /\ fails' = fails + 1
  /\ gstate' = g
  /\ gdelta' = gd
  /\ pc' = "idle" /\ op' = [kind |-> "none"] /\ reloc' = None
  /\ UNCHANGED <<disk, gdisk, found, kin, calls, relocs>>

Goto(label, locals) == pc' = label /\ op' = locals /\ UNCHANGED found
Done == Goto("idle", [kind |-> "none"])

------------------------------------------------------------------------------
(* Linking a relocated pair: the loop of lfs_dir_orphaning_commit.         *)

(* A pending move in a pair that is committed to anyway is carried out.    *)
MovesIn(p) == {m \in gstate.moves : Same(m[1], p)}
FixMove(g, p) == Move(g, g.moves \ MovesIn(p))
WithoutMoved(es, p) ==
  IF MovesIn(p) = {} THEN es ELSE RemoveAt(es, (CHOOSE m \in MovesIn(p) : TRUE)[2])

(* A commit of the loop, which may relocate its pair in turn.              *)
Relink(p, es, t, sp, g, stage, orphans) ==
  \/ /\ Write(p, es, t, sp, g, gdelta)
     /\ gstate' = g
     /\ reloc' = [reloc EXCEPT !.stage = stage, !.hasparent = TRUE]
  \/ Relocate(p, es, t, sp, g, gdelta, orphans, reloc.less)

(* The handles of the operation follow the pair.                           *)
Follow(o) ==
  LET new(p) == IF p = reloc.from THEN reloc.to ELSE p IN
  CASE o.kind = "mkdir" -> [o EXCEPT !.at[1] = new(@)]
    [] o.kind \in {"remove", "rename"} -> [o EXCEPT !.dirs = {new(p) : p \in @}]
    [] OTHER -> o

(* First the entry in its parent, if it is a directory's first pair.  Now  *)
(* the new contents are seen, and the pair is a half-orphan.               *)
RelinkParent ==
  /\ reloc.stage = "parent"
  /\ op' = Follow(op) /\ UNCHANGED <<pc, found>>
  /\ \/ /\ Parents(reloc.from) = {}
        /\ reloc' = [reloc EXCEPT !.stage = "pred"]
        /\ UNCHANGED <<disk, gstate, gdisk, gdelta, kin, calls, relocs, fails>>
     \/ \E e \in Parents(reloc.from) :
          LET p == e[1] IN
          Relink(p, WithoutMoved([disk[p].entries EXCEPT ![e[2]].obj = reloc.to], p),
                 disk[p].tail, disk[p].split,
                 FixMove(Orphans(gstate, gstate.orphans + 1), p), "pred", TRUE)

(* Mutant: the count goes down and the pair in front stays as it is. *)
PredStays ==
  /\ reloc.stage = "pred"
  /\ gstate' = Orphans(gstate, gstate.orphans - (IF reloc.hasparent THEN 1 ELSE 0))
  /\ reloc' = [reloc EXCEPT !.stage = "last"]
  /\ UNCHANGED <<disk, gdisk, gdelta, found, pc, op, kin, calls, relocs, fails>>
(* Then the tail of the pair in front, which a soft one replaces.  That    *)
(* the move it carries out is not all there is in the pair is asserted.    *)
RelinkPred ==
  /\ reloc.stage = "pred"
  /\ UNCHANGED <<found, pc, op>>
  /\ \/ /\ Preds(reloc.from) = {}
        /\ reloc' = [reloc EXCEPT !.stage = "last"]
        /\ UNCHANGED <<disk, gstate, gdisk, gdelta, kin, calls, relocs, fails>>
     \/ \E p \in Preds(reloc.from) :
          LET es == WithoutMoved(disk[p].entries, p)
              less == IF gstate.orphans > 0 /\ reloc.hasparent THEN 1 ELSE 0
          IN /\ MovesIn(p) # {} => es # <<>>
             /\ Relink(p, es, reloc.to, FALSE,
                       FixMove(Orphans(gstate, gstate.orphans - less), p), "last", reloc.orphans)

(* Mutant: only pairs that nothing names are looked for. *)
HalfUnnoticed == {}
(* A half-orphan is put on the list in place of the old pair.              *)
HalfLinks == {l \in List \X HalfOrphans \X UNION {Shown(r) : r \in List} :
                disk[l[1]].tail = l[2] /\ l[3] \in Parents(l[2]) /\ Obj(l[3]) # l[2]}

(* The parent was relocated as well, and its child is not linked yet: that *)
(* is up to lfs_fs_deorphan without powerloss.  While lfs_fs_deorphan runs *)
(* anyway, it starts again.                                                *)
Rest == reloc.orphans /\ pc # "deorphan" /\ gstate.orphans > 0
RelinkRest ==
  /\ reloc.stage = "last" /\ Rest
  /\ \E l \in HalfLinks :
       Relink(l[1], WithoutMoved(disk[l[1]].entries, l[1]), Obj(l[3]), FALSE,
              FixMove(gstate, l[1]), "last", TRUE)
  /\ found' = found + 1
  /\ UNCHANGED <<pc, op>>

Smaller(m, n) == IF m < n THEN m ELSE n
Relinked ==
  /\ reloc.stage = "last"
  /\ Rest => HalfLinks = {}
  /\ gstate' = Orphans(gstate, gstate.orphans - reloc.less
                                 - (IF Rest THEN Smaller(found, gstate.orphans) ELSE 0))
  /\ found' = IF Rest THEN 0 ELSE found
  /\ reloc' = None
  /\ UNCHANGED <<disk, gdisk, gdelta, pc, op, kin, calls, relocs, fails>>

------------------------------------------------------------------------------
(* Every operation that changes the tree first repairs it. *)

Begin ==
  /\ pc = "idle"
  /\ calls < MaxCalls /\ calls' = calls + 1
  /\ Goto("demove", op)
  /\ UNCHANGED <<disk, gstate, gdisk, gdelta, reloc, kin, relocs, fails>>

NothingElse == UNCHANGED <<disk, gstate, gdisk, gdelta, reloc, kin, counts>>

(* lfs_fs_demove: finish the move a loss of power has left. *)
Demove ==
  /\ pc = "demove"
  /\ LET g == Move(gstate, {}) IN
     \/ /\ gdisk.moves = {}
        /\ Goto("deorphan", op)
        /\ NothingElse
     \/ \E m \in gdisk.moves :
          \/ CommitDelete(m[1], m[2], g, 0) /\ Goto("deorphan", op)
          \/ Fail(g, gdelta)

(* lfs_fs_deorphan, first half-orphans, one by one.                        *)
FixHalfOrphan ==
  /\ pc = "deorphan" /\ gstate.orphans > 0
  /\ \E l \in HalfLinks :
       \/ /\ Commit(l[1], WithoutMoved(disk[l[1]].entries, l[1]), Obj(l[3]), FALSE,
                    FixMove(gstate, l[1]), gdelta, 0)
          /\ found' = found + 1
          /\ UNCHANGED <<pc, op>>
       \/ Fail(FixMove(gstate, l[1]), gdelta)

(* Then pairs without a parent, which leave the list.                      *)
FixOrphan ==
  /\ pc = "deorphan" /\ gstate.orphans > 0 /\ HalfLinks = {}
  /\ \E p \in FullOrphans : \E q \in Preds(p) :
       \/ /\ Skip(q, p, gstate, 0)
          /\ found' = found + 1
          /\ UNCHANGED <<pc, op>>
       \/ Fail(gstate, Xor(gdelta, disk[p].delta))

DeorphanDone ==
  /\ pc = "deorphan"
  /\ gstate.orphans = 0 \/ (FullOrphans = {} /\ HalfLinks = {})
  /\ gstate' = Orphans(gstate, gstate.orphans - Smaller(found, gstate.orphans))
  /\ found' = 0
  /\ pc' = "ready"
  /\ UNCHANGED <<disk, gdisk, gdelta, op, reloc, kin, counts>>

------------------------------------------------------------------------------
(* The operations.  "ready" is where the path is looked up. *)

(* NOENT, EXIST, NOTEMPTY, NOSPC...: the lookup ends the operation. *)
Refuse ==
  /\ pc = "ready"
  /\ Done
  /\ NothingElse

Insert(e, n, o) == InsertAt(disk[e[1]].entries, e[2], [name |-> n, obj |-> o])

(* lfs_file_rawopencfg with LFS_O_CREAT *)
Create(e, n, f) ==
  LET p == e[1] IN
  \/ /\ Commit(p, Insert(e, n, f), disk[p].tail, disk[p].split, gstate, gdelta, 0)
     /\ Done
  \/ Fail(gstate, gdelta)

(* lfs_dir_rawcreate: the new pair is written with the tail of the end of  *)
(* its parent's chain, then put on the list behind that end, then named;   *)
(* the last two are one commit when the chain ends where the name goes.    *)
Mkdir(e, n) ==
  LET end == ChainEnd(e[1]) IN
  \E q \in FreePairs :
    /\ disk' = [disk EXCEPT ![q] = Content(Change(gstate, gdelta), <<>>, disk[end].tail, FALSE)]
    /\ kin' = KinWithout(q)
    /\ gdisk' = gstate /\ gdelta' = Zero
    /\ Goto(IF disk[e[1]].split THEN "mkdir_pred" ELSE "mkdir_parent",
            [kind |-> "mkdir", at |-> e, name |-> n, new |-> q, pred |-> end])
    /\ UNCHANGED <<gstate, reloc, counts>>

MkdirPred ==
  /\ pc = "mkdir_pred"
  /\ LET g == Orphans(gstate, gstate.orphans + 1)
         p == op.pred IN
     \/ /\ Commit(p, disk[p].entries, op.new, FALSE, g, gdelta, 1)
        /\ Goto("mkdir_parent", op)
     \/ Fail(g, gdelta)

MkdirParent ==
  /\ pc = "mkdir_parent"
  /\ LET p == op.at[1] IN
     \/ /\ Commit(p, Insert(op.at, op.name, op.new),
                  IF disk[p].split THEN disk[p].tail ELSE op.new, disk[p].split, gstate, gdelta, 0)
        /\ Done
     \/ Fail(gstate, gdelta)

(* lfs_raw_remove *)
IsEmptyDir(p) == disk[p].entries = <<>> /\ ~disk[p].split

RemoveEntry(e) ==
  LET o == Obj(e)
      dirs == {o} \cap Pairs
      n == Cardinality(dirs)
      g == Orphans(gstate, gstate.orphans + n)
  IN /\ \A d \in dirs : IsEmptyDir(d)
     /\ \/ /\ CommitDelete(e[1], e[2], g, n)
           /\ IF dirs = {} THEN Done ELSE Goto("unlink", [kind |-> "remove", dirs |-> dirs])
        \/ Fail(g, gdelta)

(* lfs_fs_pred and lfs_dir_drop: the removed directory leaves the list. *)
Unlink ==
  /\ pc = "unlink"
  /\ \E p \in op.dirs :
       \/ /\ \E q \in Preds(p) : Skip(q, p, gstate, 0)
          /\ Done
       \/ Fail(gstate, Xor(gdelta, disk[p].delta))

(* lfs_raw_rename.  Within one pair a single commit does it.  Between two  *)
(* pairs the entry is copied under a pending move and then deleted.        *)
(* Callers do not move a directory below itself; the code does not check.  *)
RenameEntry(e, d2, n2) ==
  LET e2 == Place(d2, n2)
      o  == Obj(e)
      p  == e[1]
      p2 == e2[1]
      prev == IF IsThere(e2, n2) THEN {Obj(e2)} ELSE {}
      dirs == prev \cap Pairs
      put == IF prev = {} THEN Insert(e2, n2, o)
             ELSE ReplaceAt(disk[p2].entries, e2[2], [name |-> n2, obj |-> o])
      old == IF p = p2 /\ prev = {} /\ e2[2] <= e[2] THEN e[2] + 1 ELSE e[2]
      all == IF p = p2 THEN RemoveAt(put, old) ELSE put
      g == [orphans |-> gstate.orphans + Cardinality(dirs),
            moves   |-> IF p = p2 THEN gstate.moves ELSE {<<p, old>>}]
      next == IF p # p2 THEN "delete_source" ELSE IF dirs # {} THEN "unlink" ELSE "idle"
  IN /\ prev # {} => e # e2
     /\ d2 \notin Under(o)
     /\ \A r \in prev : (o \in Pairs) <=> (r \in Pairs)
     /\ \A r \in dirs : IsEmptyDir(r)
     /\ \/ /\ Commit(p2, all, disk[p2].tail, disk[p2].split, g, gdelta,
                     IF p = p2 THEN Cardinality(dirs) ELSE 0)
           /\ Goto(next, IF next = "idle" THEN [kind |-> "none"]
                         ELSE [kind |-> "rename", at |-> e, dirs |-> dirs])
        \/ Fail(g, gdelta)

(* The move may have been carried out by the commits that linked a pair.   *)
DeleteSource ==
  /\ pc = "delete_source"
  /\ LET g == Move(gstate, {})
         n == Cardinality(op.dirs)
     IN \/ /\ \/ gstate.moves # {} /\ CommitDelete(op.at[1], op.at[2], g, n)
              \/ /\ gstate.moves = {} /\ gstate' = Orphans(gstate, gstate.orphans - n)
                 /\ UNCHANGED <<disk, gdisk, gdelta, reloc, kin, counts>>
           /\ IF op.dirs = {} THEN Done ELSE Goto("unlink", op)
        \/ gstate.moves # {} /\ Fail(g, gdelta)

------------------------------------------------------------------------------
(* Power is lost and the file system mounted again. *)
Crash ==
  /\ gstate' = Unmasked(Gathered(List))
  /\ gdisk' = gstate'
  /\ gdelta' = Zero
  /\ found' = 0
  /\ pc' = "idle" /\ op' = [kind |-> "none"] /\ reloc' = None
  /\ UNCHANGED <<disk, kin, counts>>

Init ==
  /\ disk = [p \in Pairs |-> Blank]
  /\ gstate = Unmasked(Zero) /\ gdisk = gstate /\ gdelta = Zero
  /\ found = 0
  /\ pc = "idle" /\ op = [kind |-> "none"]
  /\ reloc = None /\ kin = {}
  /\ calls = 0 /\ relocs = 0 /\ fails = 0

Relinking == RelinkParent \/ RelinkPred \/ RelinkRest \/ Relinked
Step == Demove \/ FixHalfOrphan \/ FixOrphan \/ DeorphanDone \/ MkdirPred \/ MkdirParent \/ Unlink \/ DeleteSource

(* Paths lead to directories of the visible tree; file contents are new. *)
Call ==
  /\ pc = "ready"
  /\ \E d \in Reached, n \in Names :
       LET e == Place(d, n) IN
       IF IsThere(e, n)
       THEN \/ RemoveEntry(e)
            \/ \E d2 \in Reached, n2 \in Names : RenameEntry(e, d2, n2)
       ELSE \/ \E f \in Files \ {l.obj : l \in Visible} : Create(e, n, f)
            \/ Mkdir(e, n)

Next ==
  \/ reloc = None /\ (Begin \/ Step \/ Refuse \/ Call)
  \/ Relinking
  \/ Crash

Spec == Init /\ [][Next]_vars

------------------------------------------------------------------------------
(* Properties. *)

(* Seen through its names, the file system is a tree that every operation  *)
(* changes in one step and a loss of power never: the move state hides the *)
(* copied entry, whatever is half linked has no name yet or no more, and a *)
(* relocated pair has the new contents when its parent links it            *)
(* (lfs_raw_rename, lfs_raw_remove, lfs_dir_rawcreate,                     *)
(* lfs_dir_orphaning_commit).                                              *)
Tree == {[x EXCEPT !.obj = IF @ \in Pairs THEN Directory ELSE @] :
           x \in {y \in Visible : y.path # <<>>}}
Atomic == INSTANCE AtomicTree WITH tree <- Tree
ImplementsAtomicTree == Atomic!Spec

(* The deltas of the pairs on the list always add up to the state last     *)
(* written, whatever pairs join, split off, leave or are relocated: it is  *)
(* all that mount has to find an unfinished move (lfs_dir_getgstate).      *)
MountFindsGstate == Gathered(List \cup New) = Masked(gdisk)

(* A directory on the list without a parent, or under a link that its      *)
(* parent has changed, is announced on the storage, so that the first      *)
(* operation after a loss of power looks for it; and if it is still        *)
(* without a parent when the changed links are followed, it is empty, so   *)
(* that nothing is lost when it leaves (lfs_fs_preporphans).               *)
OrphansAnnounced ==
  /\ FullOrphans \cup HalfOrphans # {} => Gathered(List).orphan
  /\ HalfOrphans = {} => \A p \in FullOrphans : IsEmptyDir(p)

(* Every pair that names lead to is on the list, which is all the allocator*)
(* and mount know pairs by (lfs_fs_rawtraverse, lfs_raw_mount), unless a   *)
(* relocated pair is still to be put there.                                *)
ListIsComplete == HalfOrphans = {} => Directories \subseteq List

(* Nothing but the visible pairs stays on the list once the repair before  *)
(* an operation is done: no pair leaks (lfs_fs_forceconsistency).          *)
RepairIsComplete ==
  pc = "ready" => /\ List = Directories /\ HalfOrphans = {}
                  /\ gdisk.moves = {}

(* Every round of the repair comes nearer to its end: the list holds fewer *)
(* pairs that no name leads to, whether it put a relocated pair in the     *)
(* place of the old one or took one off, unless it relocates a pair itself *)
(* (lfs_fs_deorphan).                                                      *)
RepairDescends ==
  [][pc = "deorphan" /\ pc' = "deorphan" /\ reloc = None /\ reloc' = None
       => Cardinality(List' \ Directories') < Cardinality(List \ Directories)]_vars
===============================================================================
