------------------------------ MODULE LfsEntries -------------------------------
(***************************************************************************)
(* What is inside a metadata pair: the tags of a directory's log, how an   *)
(* entry is looked up in them, how a commit appends to them or compacts    *)
(* them, and what becomes of the files and directories that are open on    *)
(* the pair while other calls commit to it.                                *)
(*                                                                         *)
(* An entry is known by its id, its place among the names of the pair.     *)
(* Creating and deleting entries shifts the ids of those behind, in the    *)
(* log by splice tags, in memory by a fix-up of the handles.  Three        *)
(* procedures must agree on the shifts: the fetch, which reads the log     *)
(* forwards, the lookup, which reads it backwards, and the compaction,     *)
(* which keeps of it what later tags do not make redundant.                *)
(*                                                                         *)
(* Abstracted: one directory, a chain of pairs that hard tails link, with  *)
(* files only; a commit is atomic (LfsMdir shows that of it), stays where  *)
(* it is, and follows the last one while the block has room; a tag takes   *)
(* one unit of room whatever its size; a name is a number in the order of  *)
(* lfs_dir_find_match, a file's structure one value, and there is one      *)
(* type of user attribute.  The global state holds a move only.            *)
(***************************************************************************)
EXTENDS Integers, FiniteSetsExt, SequencesExt

CONSTANTS
  Names,      \* names of entries, numbers in the order of lfs_dir_find_match
  Contents,   \* what the structure of a file may be
  Empty,      \* the structure of a new file
  SomeAttr,   \* the value of the attribute
  Files,      \* lfs_file_t objects of the caller
  Dirs,       \* lfs_dir_t objects of the caller
  Pairs,      \* metadata pairs
  First,      \* the pair the directory begins in
  Nobody,     \* no handle, no pair, no entry: LFS_BLOCK_NULL, LFS_ERR_NOENT
  Room,       \* tags that fit a metadata block
  Start,      \* the names that are there at the start, in their order
  Commits,    \* bound on the commits of a run
  MaxOpen,    \* bound on the handles that are open at a time
  Careful     \* nobody does what leads a handle or an attribute astray

ASSUME EntriesAssumption ==
  /\ Names \subseteq Nat
  /\ Empty \in Contents /\ Nobody \notin Pairs \cup Names \cup Contents \cup {SomeAttr}
  /\ First \in Pairs
  /\ \A i \in 1..Len(Start) : Start[i] \in Names /\ \A j \in 1..(i - 1) : Start[j] < Start[i]
  /\ Room \in Nat \ {0} /\ {Commits, MaxOpen} \subseteq Nat
  /\ Careful \subseteq {"last", "attr"}

VARIABLES
  log,    \* the tags of each pair that a fetch accepts
  gdisk,  \* lfs->gdisk: the entry that has been moved away and must go
  hnd,    \* lfs->metadata_list: the open handles
  call,   \* a rename between its two commits
  hist,   \* what the handles were opened for and have returned (history)
  want,   \* the entries the calls so far should have left (history)
  left    \* commits that are left, of Commits

vars == <<log, gdisk, hnd, call, hist, want, left>>

------------------------------------------------------------------------------
(* Tags. *)

(* SequencesExt!FoldLeft as a function of the index, which TLC evaluates   *)
(* much faster.                                                            *)
Along(op(_, _), base, s) ==
  LET f[i \in 0..Len(s)] == IF i = 0 THEN base ELSE op(f[i - 1], s[i]) IN f[Len(s)]

Tag(type, id, val) == [type |-> type, id |-> id, val |-> val]
NoId == 1000   \* 0x3ff, the id of tags that are about the pair

Splices == {"create", "delete"}
lfs_tag_splice(t) == IF t.type = "create" THEN 1 ELSE -1
lfs_tag_isdelete(t) == t.type = "attr" /\ t.val = Nobody

(* The bits of the type that two tags with one meaning have in common.     *)
Meaning(t) == IF t.type = "super" THEN "name" ELSE t.type
IsName(t)  == Meaning(t) = "name"

TailTag(p) == Tag("tail", NoId, p)
IsRoot == \E i \in 1..Len(log[First]) : log[First][i].type = "super"

(* lfs_dir_fetch: the number of entries and the tail.                      *)
CountTag(n, t) ==
  CASE IsName(t) -> IF t.id >= n THEN t.id + 1 ELSE n
    [] t.type \in Splices -> n + lfs_tag_splice(t)
    [] OTHER -> n
Count(l) == Along(CountTag, 0, l)
TailOf(l) == Along(LAMBDA p, t : IF t.type = "tail" THEN t.val ELSE p, Nobody, l)

(* lfs_gstate_hasmovehere.                                                 *)
HasMoveHere(p) == gdisk # Nobody /\ gdisk.pair = p

------------------------------------------------------------------------------
(* Lookup. *)

(* A round of lfs_dir_getslice, from the end of the log backwards: d is    *)
(* how far the ids have shifted since, out the answer once there is one.   *)
Matches(t, kind, id) == t.type = kind /\ t.id = id
GetStep(kind, id, s, t) ==
  LET below == t.type \in Splices /\ t.id <= id - s.d
      d == IF below THEN s.d + lfs_tag_splice(t) ELSE s.d
  IN CASE s.over -> s
       [] ~s.over /\ below /\ t.type = "create" /\ t.id = id - s.d -> [s EXCEPT !.over = TRUE]
       [] ~s.over /\ Matches(t, kind, id - d) -> [d |-> d, over |-> TRUE, out |-> t.val]
       [] OTHER -> [s EXCEPT !.d = d]

lfs_dir_get(p, kind, id) ==
  LET synthetic == IF HasMoveHere(p) /\ gdisk.id <= id THEN -1 ELSE 0
  IN Along(LAMBDA s, t : GetStep(kind, id, s, t),
              [d |-> synthetic, over |-> FALSE, out |-> Nobody], Reverse(log[p])).out

(* A tag of lfs_dir_fetchmatch that looks for name: best is the tag with   *)
(* the name, or, with found FALSE, the place of the first greater one.     *)
None == [id |-> NoId, found |-> FALSE]
MatchTag(name, best, t) ==
  IF t.type \in Splices
  THEN CASE t.type = "delete" /\ t.id = best.id -> [best EXCEPT !.found = FALSE]
         [] best # None /\ t.id <= best.id -> [best EXCEPT !.id = @ + lfs_tag_splice(t)]
         [] OTHER -> best
  ELSE CASE t.type # "name" -> best
         [] t.val = name -> [id |-> t.id, found |-> TRUE]
         [] t.val # name /\ t.id = best.id -> None
         [] t.val > name /\ t.id < best.id -> [id |-> t.id, found |-> FALSE]
         [] OTHER -> best

Unmoved(p, best) ==
  CASE HasMoveHere(p) /\ gdisk.id = best.id -> [best EXCEPT !.found = FALSE]
    [] HasMoveHere(p) /\ best # None /\ gdisk.id < best.id -> [best EXCEPT !.id = @ - 1]
    [] OTHER -> best
lfs_dir_fetchmatch(p, name) ==
  Unmoved(p, Along(LAMBDA b, t : MatchTag(name, b, t), None, log[p]))

(* The pairs of the directory from p on.                                   *)
Linked(chain, q) == IF q = Nobody THEN chain ELSE Append(chain, q)
ChainFrom(p) ==
  LET step(chain, i) == IF chain = << >> THEN chain ELSE Linked(chain, TailOf(log[Last(chain)]))
  IN Along(step, Linked(<< >>, p), [i \in 1..Cardinality(Pairs) |-> i])
Chain == ChainFrom(First)

(* lfs_dir_find inside the directory: the first pair that has the name, or *)
(* a greater one, or is the last; id is where the name is or would go.     *)
Place(p, best, count) ==
  [pair |-> p, found |-> best.found, over |-> best.found \/ best.id < count,
   id |-> IF best.id < count THEN best.id ELSE count]
lfs_dir_find(name) ==
  LET next(at, p) ==
        IF at # Nobody /\ at.over THEN at
        ELSE Place(p, lfs_dir_fetchmatch(p, name), Count(log[p]))
  IN Along(next, Nobody, Chain)

(* lfs_dir_getinfo: the name of an entry, or nothing.                      *)
lfs_dir_getinfo(p, id) ==
  IF lfs_dir_get(p, "struct", id) = Nobody THEN Nobody ELSE lfs_dir_get(p, "name", id)

------------------------------------------------------------------------------
(* Commit. *)

(* lfs_dir_traverse_filter: what is left of the tag f when the tag t comes *)
(* later; nothing, or the tag under the id it has then.                    *)
FilterBy(f, t, shifts) ==
  CASE f = Nobody \/ t.type = "move" -> f
    [] Meaning(t) = Meaning(f) /\ t.id = f.id -> Nobody
    [] lfs_tag_isdelete(f) -> Nobody
    [] t.type = "delete" /\ t.id = f.id -> Nobody
    [] t.type \in Splices /\ shifts -> [f EXCEPT !.id = @ + lfs_tag_splice(t)]
    [] OTHER -> f
(* Mutant: a creation at the very id does not shift the tag. *)
FilterStepBehind(f, t) == FilterBy(f, t, t.id < f.id)
FilterStep(f, t) == FilterBy(f, t, t.id <= f.id)
Filtered(tags, i) == Along(FilterStep, tags[i], SubSeq(tags, i + 1, Len(tags)))

Indices(s) == [i \in 1..Len(s) |-> i]

(* LFS_FROM_MOVE: what belongs to entry "from" of the log l, as entry to.  *)
MovedTag(f, from, to) ==
  IF f # Nobody /\ f.type \in {"struct", "attr"} /\ f.id = from
  THEN <<[f EXCEPT !.id = to]>> ELSE << >>
Moved(l, from, to) ==
  Along(LAMBDA out, i : out \o MovedTag(Filtered(l, i), from, to), << >>, Indices(l))
Emit(t) == IF t.type = "move" THEN Moved(t.val.log, t.val.id, t.id) ELSE <<t>>

(* lfs_dir_traverse without a filter: the tags of an append.               *)
Appended(attrs) == Along(LAMBDA out, t : out \o Emit(t), << >>, attrs)

(* lfs_dir_traverse with the filter: what is left of the tags, under the   *)
(* ids that the entries have in the end; and of those, for the entries     *)
(* from begin to end - 1, what goes into a block of their own.             *)
LiveTag(f) ==
  IF f = Nobody \/ f.type \in Splices \cup {"tail"} THEN << >> ELSE Emit(f)
Live(tags) ==
  Along(LAMBDA out, i : out \o LiveTag(Filtered(tags, i)), << >>, Indices(tags))
InRange(live, begin, end) == SelectSeq(live, LAMBDA t : begin <= t.id /\ t.id < end)
From(tags, begin) == [i \in 1..Len(tags) |-> [tags[i] EXCEPT !.id = @ - begin]]

(* lfs_dir_splittingcompact: halve the entries up to e until their tags    *)
(* take half a block; then the same with the entries before.               *)
Cut(live, e) ==
  LET f[s \in 0..e] ==
        IF e - s <= 1 \/ Len(InRange(live, s, e)) <= Room \div 2 THEN s
        ELSE f[s + (e - s) \div 2]
  IN f[0]
Ends(live, count) ==
  LET step(ends, i) ==
        IF Len(ends) > 1 /\ Head(ends) = 0 THEN ends ELSE <<Cut(live, Head(ends))>> \o ends
  IN Tail(Along(step, <<count>>, [i \in 1..(count + 1) |-> i]))

NewCount(l, attrs) == Along(LAMBDA n, t : IF t.type \in Splices THEN n + lfs_tag_splice(t) ELSE n,
                               Count(l), attrs)
Fresh == SetToSortSeq(Pairs \ ToSet(Chain), <)

(* lfs_dir_compact into the pairs ps: the entries up to each of ends, and  *)
(* a tail, of the last one the tail that the directory had there.          *)
Written(new, ends, ps, tail) ==
  [log |-> [p \in Pairs |-> IF \E i \in 1..Len(ps) : ps[i] = p
                             THEN new[CHOOSE i \in 1..Len(ps) : ps[i] = p] ELSE log[p]],
   count |-> ends[1], tail |-> IF Len(ps) = 1 THEN tail ELSE ps[2],
   ok |-> \A i \in 1..Len(ps) : Len(new[i]) <= Room]
CompactInto(live, ends, ps, tail) ==
  LET begin(i) == IF i = 1 THEN 0 ELSE ends[i - 1]
      last(i) == IF i < Len(ps) THEN <<TailTag(ps[i + 1])>>
                 ELSE IF tail = Nobody THEN << >> ELSE <<TailTag(tail)>>
  IN Written([i \in 1..Len(ps) |-> From(InRange(live, begin(i), ends[i]), begin(i)) \o last(i)],
             ends, ps, tail)
(* lfs_dir_split of what does not fit, as far as lfs_dir_alloc finds pairs. *)
SplitInto(p, live, all, fresh, tail) ==
  LET n == Min({Len(all) - 1, Len(fresh)}) IN
  CompactInto(live, SubSeq(all, Len(all) - n, Len(all)), <<p>> \o SubSeq(fresh, 1, n), tail)
CompactLive(p, live, count, tail) == SplitInto(p, live, Ends(live, count), Fresh, tail)
Compaction(p, attrs) ==
  CompactLive(p, Live(log[p] \o attrs), NewCount(log[p], attrs), TailOf(log[p] \o attrs))

(* lfs_dir_relocating_commit, up to its fix-up of the handles.             *)
Fits(p, new, attrs) ==
  IF Len(new) <= Room
  THEN [log |-> [log EXCEPT ![p] = new], count |-> NewCount(log[p], attrs),
        tail |-> TailOf(new), ok |-> TRUE]
  ELSE Compaction(p, attrs)
Committed(p, attrs) == Fits(p, log[p] \o Appended(attrs), attrs)

HasDelete(attrs) == \E i \in 1..Len(attrs) : attrs[i].type = "delete"
Drops(p, attrs) == HasDelete(attrs) /\ NewCount(log[p], attrs) = 0 /\ p # First
Pred(p) == CHOOSE q \in ToSet(Chain) : TailOf(log[q]) = p

------------------------------------------------------------------------------
(* Handles. *)

Handles == Files \cup Dirs
Opens(k) == hnd[k] = Nobody /\ Cardinality({j \in Handles : hnd[j] # Nobody}) < MaxOpen
Opened(p, id) == [pair |-> p, count |-> Count(log[p]), tail |-> TailOf(log[p]), id |-> id, pos |-> 0]

(* The fix-up of one handle for one tag of a commit.                       *)
ShiftWhen(k, h, t, back, on) ==
  LET by(n) == [h EXCEPT !.id = @ + n, !.pos = IF k \in Dirs THEN @ + n ELSE @]
  IN CASE t.type = "delete" /\ h.id = t.id -> [h EXCEPT !.pair = Nobody]
       [] t.type = "delete" /\ back -> by(-1)
       [] t.type = "create" /\ on -> by(1)
       [] OTHER -> h
(* Mutant: a deletion does not shift the handles behind it. *)
ShiftNotBack(k, h, t) == ShiftWhen(k, h, t, FALSE, h.id >= t.id)
(* Mutant: a creation at the very id does not shift the handle. *)
ShiftBehind(k, h, t) == ShiftWhen(k, h, t, h.id > t.id, h.id > t.id)
Shift(k, h, t) == ShiftWhen(k, h, t, h.id > t.id, h.id >= t.id)

(* "we split and id is on tail now"                                        *)
OnTail(h) == h.id >= h.count /\ h.tail # Nobody
Settled(h, l) ==
  Along(LAMBDA x, i : IF OnTail(x)
                         THEN [x EXCEPT !.id = @ - x.count, !.pair = x.tail,
                                        !.count = Count(l[x.tail]), !.tail = TailOf(l[x.tail])]
                         ELSE x,
           h, [i \in 1..Cardinality(Pairs) |-> i])

(* A handle of pair p after a commit to p; the one that commits is not     *)
(* shifted.                                                                *)
ShiftedBy(k, copy, self, attrs) ==
  IF k = self THEN copy ELSE Along(LAMBDA x, t : Shift(k, x, t), copy, attrs)
Shifted(k, h, self, attrs, r) ==
  ShiftedBy(k, [h EXCEPT !.count = r.count, !.tail = r.tail], self, attrs)
Fixed(k, hs, self, p, attrs, r) ==
  IF hs[k] = Nobody \/ hs[k].pair # p THEN hs[k]
  ELSE Settled(Shifted(k, hs[k], self, attrs, r), r.log)

(* A deleted entry's handle, closed by the fix-up, that goes on to the     *)
(* tail and stands for the entry it finds there.                           *)
Strays(hs, self, p, attrs, r) ==
  \E k \in Files : /\ hs[k] # Nobody /\ hs[k].pair = p
                   /\ LET h == Shifted(k, hs[k], self, attrs, r) IN h.pair = Nobody /\ OnTail(h)

(* What a commit does to the histories: names that it touched are no       *)
(* longer due, and a directory handle is                                   *)
(*   upset, when its place in the listing went away under it,              *)
(*   stirred, when entries came or went in a pair it has left, or before   *)
(*   it has read anything.                                                 *)
Chronicle(hi, hs, new, p, attrs, touched) ==
  [k \in Handles |->
     IF k \in Files THEN IF hi[k] \in touched THEN Nobody ELSE hi[k]
     ELSE IF hs[k] = Nobody THEN Nobody
     ELSE [hi[k] EXCEPT
             !.due = @ \ touched,
             !.upset = @ \/ new[k].pair = Nobody \/ (Drops(p, attrs) /\ new[k].pair = p),
             !.stirred = @ \/ /\ \E i \in 1..Len(attrs) : attrs[i].type \in Splices
                              /\ hs[k].pos < 2 \/ p \notin ToSet(ChainFrom(hs[k].pair))]]

(* All handles after a commit to p.                                        *)
AllFixed(hs, self, p, attrs, r) == [k \in Handles |-> Fixed(k, hs, self, p, attrs, r)]
Finish(hs, new, hi, p, attrs, touched, r) ==
  /\ r.ok
  /\ left > 0 /\ left' = left - 1
  /\ log' = r.log
  /\ hnd' = new
  /\ hist' = Chronicle(hi, hs, new, p, attrs, touched)

(* lfs_dir_relocating_commit to p.                                         *)
CommitTo(hs, hi, self, p, attrs, touched, r) ==
  /\ "last" \in Careful => ~Strays(hs, self, p, attrs, r)
  /\ Finish(hs, AllFixed(hs, self, p, attrs, r), hi, p, attrs, touched, r)

(* The commit empties p: instead its predecessor takes the tail.           *)
DropTo(hs, hi, self, p, attrs, touched, tail, r) ==
  LET gone == [log |-> log, count |-> 0, tail |-> tail, ok |-> TRUE] IN
  /\ "last" \in Careful => ~Strays(hs, self, p, attrs, gone)
  /\ Finish(hs, AllFixed(AllFixed(hs, self, p, attrs, gone), self, Pred(p), <<TailTag(tail)>>, r),
            hi, p, attrs, touched, r)

(* lfs_dir_commit, with the handles hs open.                               *)
Commit(hs, hi, self, p, attrs, touched) ==
  IF Drops(p, attrs)
  THEN LET tail == TailOf(log[p]) IN
       DropTo(hs, hi, self, p, attrs, touched, tail, Committed(Pred(p), <<TailTag(tail)>>))
  ELSE CommitTo(hs, hi, self, p, attrs, touched, Committed(p, attrs))

------------------------------------------------------------------------------
(* Calls. *)

(* A directory, the root or another one, as compactions leave it: the      *)
(* names of Start, the first cut of them in the first pair.                *)
Spare == SetToSortSeq(Pairs \ {First}, <)
Root == <<Tag("super", 0, Nobody)>>
Stored(ns, id) ==
  Along(LAMBDA out, i : out \o <<Tag("name", id + i - 1, ns[i]), Tag("struct", id + i - 1, Empty)>>,
        << >>, Indices(ns))
Init ==
  /\ \E root \in {<< >>, Root}, cut \in 0..Len(Start) :
       LET q == Head(Spare) IN
       log = [p \in Pairs |->
                CASE p = First -> root \o Stored(SubSeq(Start, 1, cut), Len(root))
                                    \o (IF cut = Len(Start) THEN << >> ELSE <<TailTag(q)>>)
                  [] p = q -> Stored(SubSeq(Start, cut + 1, Len(Start)), 0)
                  [] OTHER -> << >>]
  /\ gdisk = Nobody /\ call = Nobody
  /\ hnd = [k \in Handles |-> Nobody]
  /\ hist = [k \in Handles |-> Nobody]
  /\ want = [n \in Names |-> IF n \in ToSet(Start) THEN [struct |-> Empty, attr |-> Nobody] ELSE Nobody]
  /\ left = Commits

(* A call that writes; lfs_fs_forceconsistency has nothing to do.          *)
Writing == call = Nobody /\ gdisk = Nobody
Rest == UNCHANGED <<gdisk, call>>

(* lfs_file_open of an existing file, to write.                            *)
OpenFile(f, n) ==
  /\ Writing /\ Opens(f)
  /\ \E at \in {lfs_dir_find(n)} : at.found /\ hnd' = [hnd EXCEPT ![f] = Opened(at.pair, at.id)]
  /\ hist' = [hist EXCEPT ![f] = n]
  /\ UNCHANGED <<log, want, left>> /\ Rest

(* lfs_file_open with LFS_O_CREAT of a new one.                            *)
CreateFile(f, n) ==
  /\ Writing /\ Opens(f)
  /\ \E at \in {lfs_dir_find(n)} :
       /\ ~at.found
       /\ Commit([hnd EXCEPT ![f] = Opened(at.pair, at.id)], [hist EXCEPT ![f] = n], f, at.pair,
            <<Tag("create", at.id, Nobody), Tag("name", at.id, n), Tag("struct", at.id, Empty)>>, {})
  /\ want' = [want EXCEPT ![n] = [struct |-> Empty, attr |-> Nobody]]
  /\ Rest

(* lfs_file_rawsync of a file that was written.                            *)
Sync(f, s) ==
  /\ Writing /\ hnd[f] # Nobody /\ hnd[f].pair # Nobody
  /\ Commit(hnd, hist, f, hnd[f].pair, <<Tag("struct", hnd[f].id, s)>>, {})
  /\ want' = IF hist[f] = Nobody THEN want ELSE [want EXCEPT ![hist[f]].struct = s]
  /\ Rest

(* lfs_file_close, lfs_dir_close.                                          *)
Close(k) ==
  /\ call = Nobody /\ hnd[k] # Nobody
  /\ hnd' = [hnd EXCEPT ![k] = Nobody]
  /\ hist' = [hist EXCEPT ![k] = Nobody]
  /\ UNCHANGED <<log, want, left>> /\ Rest

(* lfs_raw_remove of a file.                                               *)
RemoveFile(n) ==
  /\ Writing
  /\ \E at \in {lfs_dir_find(n)} :
       at.found /\ Commit(hnd, hist, Nobody, at.pair, <<Tag("delete", at.id, Nobody)>>, {n})
  /\ want' = [want EXCEPT ![n] = Nobody]
  /\ Rest

(* lfs_raw_rename: within a pair one commit, else a second one deletes the *)
(* old entry, and the move is announced until then.                        *)
RenameAt(o, n, old, new) ==
  LET samepair == old.pair = new.pair
      oldid == IF samepair /\ ~new.found /\ new.id <= old.id THEN old.id + 1 ELSE old.id
      attrs == (IF new.found THEN <<Tag("delete", new.id, Nobody)>> ELSE << >>)
               \o <<Tag("create", new.id, Nobody), Tag("name", new.id, n),
                    Tag("move", new.id, [log |-> log[old.pair], id |-> old.id])>>
               \o (IF samepair THEN <<Tag("delete", oldid, Nobody)>> ELSE << >>)
      move == IF samepair THEN Nobody ELSE [pair |-> old.pair, id |-> oldid]
  IN /\ old.found
     /\ Commit(hnd, hist, Nobody, new.pair, attrs, {o, n})
     /\ gdisk' = move /\ call' = move
     /\ want' = [want EXCEPT ![n] = want[o], ![o] = Nobody]
Rename(o, n) == Writing /\ o # n /\ RenameAt(o, n, lfs_dir_find(o), lfs_dir_find(n))

DeleteOld ==
  /\ call # Nobody
  /\ Commit(hnd, hist, Nobody, call.pair, <<Tag("delete", call.id, Nobody)>>, {})
  /\ gdisk' = Nobody /\ call' = Nobody
  /\ UNCHANGED want

(* lfs_fs_demove, in the first call that writes after a mount.  It upsets  *)
(* directory handles, whose ids have counted without the entry.            *)
Upset == [k \in Handles |-> IF k \in Dirs /\ hnd[k] # Nobody THEN [hist[k] EXCEPT !.upset = TRUE] ELSE hist[k]]
Demove ==
  /\ call = Nobody /\ gdisk # Nobody
  /\ Commit(hnd, Upset, Nobody, gdisk.pair, <<Tag("delete", gdisk.id, Nobody)>>, {})
  /\ gdisk' = Nobody
  /\ UNCHANGED <<call, want>>

(* lfs_raw_set_attribute, lfs_raw_remove_attribute.                        *)
SetAttribute(n, a) ==
  /\ call = Nobody
  /\ "attr" \in Careful => gdisk = Nobody
  /\ \E at \in {lfs_dir_find(n)} :
       at.found /\ Commit(hnd, hist, Nobody, at.pair, <<Tag("attr", at.id, a)>>, {})
  /\ want' = [want EXCEPT ![n].attr = a]
  /\ Rest

(* Power is lost; the volume is mounted again.                             *)
Crash ==
  /\ call' = Nobody
  /\ hnd' = [k \in Handles |-> Nobody]
  /\ hist' = [k \in Handles |-> Nobody]
  /\ UNCHANGED <<log, gdisk, want, left>>

------------------------------------------------------------------------------
(* Listing. *)

(* The names of a directory in the order of its pairs and ids.             *)
NamesOf(p, begin, end) == {lfs_dir_getinfo(p, i) : i \in begin..(end - 1)} \ {Nobody}
Listed == UNION {NamesOf(p, 0, Count(log[p])) : p \in ToSet(Chain)}

(* The entries from a place in the directory on, as the loops of           *)
(* lfs_dir_rawread and lfs_dir_rawseek come by them.                       *)
PlacesIn(p, begin, end) == [i \in 1..(end - begin) |-> [pair |-> p, id |-> begin + i - 1]]
PlacesFrom(p, begin, end, tail) ==
  Along(LAMBDA out, q : out \o PlacesIn(q, 0, Count(log[q])), PlacesIn(p, begin, end), ChainFrom(tail))
Behind(place, pos) == [Opened(place.pair, place.id + 1) EXCEPT !.pos = pos]

OpenDir(d) ==
  /\ call = Nobody /\ Opens(d)
  /\ hnd' = [hnd EXCEPT ![d] = Opened(First, 0)]
  /\ hist' = [hist EXCEPT ![d] = [due |-> Listed, seen |-> {}, upset |-> FALSE, stirred |-> FALSE]]
  /\ UNCHANGED <<log, want, left>> /\ Rest

(* lfs_dir_rawread: "." and "..", then the entries.                        *)
ReadDots(d) ==
  /\ call = Nobody /\ hnd[d] # Nobody /\ hnd[d].pos < 2
  /\ hnd' = [hnd EXCEPT ![d].pos = @ + 1]
  /\ UNCHANGED <<log, hist, want, left>> /\ Rest

Named(place) == lfs_dir_getinfo(place.pair, place.id) # Nobody
ReadDir(d) ==
  LET h == hnd[d] IN
  /\ call = Nobody /\ h # Nobody
  /\ h.pos >= 2 /\ h.pair # Nobody
  /\ \E named \in {SelectSeq(PlacesFrom(h.pair, h.id, h.count, h.tail), Named)} :
       /\ named # << >>
       /\ hnd' = [hnd EXCEPT ![d] = Behind(Head(named), h.pos + 1)]
       /\ hist' = [hist EXCEPT ![d].seen =
                     @ \cup {lfs_dir_getinfo(Head(named).pair, Head(named).id)}]
  /\ UNCHANGED <<log, want, left>> /\ Rest

(* lfs_dir_rawseek, from the beginning; also lfs_dir_rawrewind.            *)
SoughtPast(skip, off) ==
  LET n == IF off > 2 THEN off - 2 ELSE 0
      places == PlacesFrom(First, IF n > 0 THEN skip ELSE 0, Count(log[First]), TailOf(log[First]))
  IN IF n = 0 THEN [Opened(First, 0) EXCEPT !.pos = off] ELSE Behind(places[n], off)
(* Mutant: the superblock entry counts as one of those to pass. *)
SoughtAtSuper(off) == SoughtPast(0, off)
SoughtAt(off) == SoughtPast(IF IsRoot THEN 1 ELSE 0, off)
Firsts(n) == {x \in Listed : Cardinality({y \in Listed : y < x}) < n}
SeekDir(d, off) ==
  /\ Writing /\ hnd[d] # Nobody
  /\ hnd' = [hnd EXCEPT ![d] = SoughtAt(off)]
  /\ hist' = [hist EXCEPT ![d] = [due |-> Listed, seen |-> Firsts(off - 2),
                                   upset |-> FALSE, stirred |-> FALSE]]
  /\ UNCHANGED <<log, want, left>> /\ Rest

Next ==
  \/ \E f \in Files, n \in Names : OpenFile(f, n) \/ CreateFile(f, n)
  \/ \E f \in Files, s \in Contents \ {Empty} : Sync(f, s)
  \/ \E k \in Handles : Close(k)
  \/ \E n \in Names : RemoveFile(n) \/ \E o \in Names : Rename(o, n)
  \/ DeleteOld \/ Demove \/ Crash
  \/ \E n \in Names, a \in {SomeAttr, Nobody} : SetAttribute(n, a)
  \/ \E d \in Dirs : OpenDir(d) \/ ReadDots(d) \/ ReadDir(d)
                     \/ \E off \in 0..(Cardinality(Listed) + 2) : SeekDir(d, off)

Spec == Init /\ [][Next]_vars

------------------------------------------------------------------------------
(* Properties. *)

(* A handle of a file stands for the entry it was opened on however many   *)
(* entries come and go before it and wherever a split puts it, and for     *)
(* none once that entry is gone: lfs_commit.cpp:829-864.                   *)
HandlesFollow ==
  call = Nobody =>
    \A f \in Files : hnd[f] # Nobody =>
      IF hist[f] = Nobody THEN hnd[f].pair = Nobody
      ELSE /\ hnd[f].pair \in ToSet(Chain)
           /\ hnd[f] = [Opened(hnd[f].pair, hnd[f].id) EXCEPT !.pos = hnd[f].pos]
           /\ lfs_dir_getinfo(hnd[f].pair, hnd[f].id) = hist[f]

(* What a directory handle has still to return is what was there when it   *)
(* was opened, has been left alone, and has not been returned: no entry is *)
(* lost or returned twice because of others that come and go.              *)
Ahead(h) ==
  NamesOf(h.pair, h.id, h.count)
    \cup UNION {NamesOf(p, 0, Count(log[p])) : p \in ToSet(ChainFrom(h.tail))}
ListingComplete ==
  call = Nobody =>
    \A d \in Dirs : hnd[d] # Nobody /\ ~hist[d].upset =>
      Ahead(hnd[d]) \cap hist[d].due = hist[d].due \ hist[d].seen

(* lfs_dir_seek to what lfs_dir_tell returned leads back to the place.     *)
TellIsPlace ==
  call = Nobody /\ gdisk = Nobody =>
    \A d \in Dirs : hnd[d] # Nobody /\ ~hist[d].upset /\ ~hist[d].stirred =>
      Ahead(SoughtAt(hnd[d].pos)) = Ahead(hnd[d])

(* Lookups find what the calls have asked for, whatever commits, splits,   *)
(* drops and compactions the logs have been through, also while an entry   *)
(* waits to be deleted, and after a loss of power.                         *)
Found(n) ==
  LET at == lfs_dir_find(n) IN
  IF at.found THEN [struct |-> lfs_dir_get(at.pair, "struct", at.id),
                    attr |-> lfs_dir_get(at.pair, "attr", at.id)]
  ELSE Nobody
(* A name may be missed while an entry waits to be deleted, if it lies in  *)
(* a pair behind the one of that entry: lfs_dir_fetchmatch shifts the      *)
(* place of the name and not the number of entries it compares it with,    *)
(* and so the lookup may end in the pair of the entry                      *)
(* (lfs_metadata.cpp:664-697).                                             *)
Missed(n) ==
  /\ Found(n) = Nobody /\ gdisk # Nobody
  /\ \E p \in ToSet(ChainFrom(TailOf(log[gdisk.pair]))) : lfs_dir_fetchmatch(p, n).found
EntriesAsAsked ==
  \A n \in Names : Found(n) = want[n] \/ (want[n] # Nobody /\ Missed(n))
===============================================================================
