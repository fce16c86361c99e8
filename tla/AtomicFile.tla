----------------------------- MODULE AtomicFile ------------------------------
(***************************************************************************)
(* What an open file promises: bytes and a position, changed by one call   *)
(* at a time, and the bytes that a loss of power goes back to, changed by  *)
(* a sync only.                                                            *)
(*                                                                         *)
(* A call that is not refused for its size fails for want of space and for *)
(* no other reason.  It may have done a part of its work from the front    *)
(* then, and have moved the position; a failed write keeps syncs away      *)
(* until a write succeeds.                                                 *)
(***************************************************************************)
EXTENDS Integers, Sequences, FiniteSetsExt

CONSTANTS
  Values,       \* bytes that are written
  Zero,         \* the byte that gaps are filled with
  MaxSize,      \* bytes the file can have
  Sizes         \* bound: sizes of reads and writes

VARIABLES
  contents,  \* the bytes of the file
  pos,       \* where the next read or write goes
  erred,     \* a write has failed since the last one that succeeded
  synced,    \* the bytes that a loss of power goes back to
  answer     \* what the last call returned: a result, and the bytes read

vars == <<contents, pos, erred, synced, answer>>

Done == [res |-> "ok", data |-> <<>>]
Slice(c, from, to) == SubSeq(c, from, Min({to, Len(c)}))
Zeros(n) == [i \in 1..n |-> Zero]

\* The contents c with d written at position p; a gap is filled with zeros.
Overwrite(c, p, d) ==
  LET base == c \o Zeros(Max({0, p - Len(c)}))
  IN  SubSeq(base, 1, p) \o d \o SubSeq(base, p + Len(d) + 1, Len(base))

\* Writing d at p as far as k bytes get, those that fill a gap included.
Partly(c, p, d, k) ==
  LET from == Min({p, Len(c)})
      all == Zeros(p - from) \o d
  IN  Overwrite(c, from, Slice(all, 1, k))

Init ==
  /\ contents = <<>>
  /\ pos = 0
  /\ erred = FALSE
  /\ synced = <<>>
  /\ answer = Done

\* A call fails before it has done anything to the contents.
Fail ==
  /\ pos' \in 0..MaxSize
  /\ erred' \in {erred, TRUE}
  /\ answer' = [Done EXCEPT !.res = "nospc"]
  /\ UNCHANGED <<contents, synced>>

Read(n) ==
  /\ answer' = [Done EXCEPT !.data = Slice(contents, pos + 1, pos + n)]
  /\ pos' = pos + Len(answer'.data)
  /\ UNCHANGED <<contents, erred, synced>>

Write(p, d) ==
  /\ p + Len(d) <= MaxSize
  /\ contents' = Overwrite(contents, p, d)
  /\ pos' = p + Len(d)
  /\ erred' = FALSE
  /\ answer' = Done
  /\ UNCHANGED synced

\* Of a write or an extension by d at p the first bytes are written.
WritePartly(p, d) ==
  /\ \E k \in 0..MaxSize : contents' = Partly(contents, p, d, k)
  /\ pos' \in 0..MaxSize
  /\ erred' = TRUE
  /\ answer' = [Done EXCEPT !.res = "nospc"]
  /\ UNCHANGED synced

\* A call that asks for more than MaxSize: no byte has changed, and the file
\* may be synced as before.
Refuse(p, res) ==
  /\ pos' = p
  /\ answer' = [Done EXCEPT !.res = res]
  /\ UNCHANGED <<contents, erred, synced>>

WriteTooMuch(p, n) == p + n > MaxSize /\ Refuse(p, "fbig")
GoTooFar == Refuse(pos, "inval")

Seek(n) ==
  /\ pos' = n
  /\ answer' = Done
  /\ UNCHANGED <<contents, erred, synced>>

\* Extending writes, so that it allows syncs again as a write does.
Truncate(n) ==
  /\ contents' = Slice(contents, 1, n) \o Zeros(Max({0, n - Len(contents)}))
  /\ erred' = (erred /\ n <= Len(contents))
  /\ answer' = Done
  /\ UNCHANGED <<pos, synced>>

Sync ==
  /\ synced' = IF erred THEN synced ELSE contents
  /\ answer' = Done
  /\ UNCHANGED <<contents, pos, erred>>

\* The file is opened as it was synced, after a loss of power or a close
\* whose sync has done what it could; or it is opened to be replaced.
Reopen(c) ==
  /\ contents' = c
  /\ pos' = 0
  /\ erred' = FALSE
  /\ answer' = Done
  /\ UNCHANGED synced

Next ==
  \/ Fail
  \/ \E n \in Sizes : Read(n)
  \/ \E p \in {pos, Len(contents)}, n \in Sizes :
       \/ \E v \in Values :
            LET d == [i \in 1..n |-> v] IN Write(p, d) \/ WritePartly(p, d)
       \/ WriteTooMuch(p, n)
  \/ GoTooFar
  \/ \E n \in 0..MaxSize :
       \/ Seek(n)
       \/ Truncate(n)
       \/ n > Len(contents) /\ WritePartly(Len(contents), Zeros(n - Len(contents)))
  \/ Sync
  \/ Reopen(synced)
  \/ Reopen(<<>>)

Spec == Init /\ [][Next]_vars
=============================================================================
