----------------------------- MODULE VfsShared -------------------------------
(***************************************************************************)
(* Threads that share handles of the VFS on one file: the calls of VfsFile *)
(* under the mutex of VfsLocking.                                          *)
(*                                                                         *)
(* A call looks at _is_open, waits for the mutex, makes the littlefs calls *)
(* it needs, each of which asserts that the file is on the list of open    *)
(* files, and does its work.  _is_open is looked at before the mutex is    *)
(* held, so that the handle may be closed by then.                         *)
(*                                                                         *)
(* Abstracted: the work of a call is one step, when it gives the mutex     *)
(* back; its littlefs calls before that only lock, assert and unlock.      *)
(***************************************************************************)
EXTENDS VfsFile

CONSTANTS
  Threads,    \* the threads that call
  Closers,    \* those of them that may close a handle
  NoThread    \* the owner of a free mutex

ASSUME SharedAssumption == NoThread \notin Threads

VARIABLES
  owner, depth, pc,  \* the mutex and the threads, as in VfsLocking
  op,        \* per thread: what it calls, on which handle
  arg,       \* per thread: with which bytes
  todo,      \* per thread: the littlefs calls still to make
  listed     \* per handle: the lfs_file_t is on lfs->metadata_list

M == INSTANCE VfsLocking
mutex == <<owner, depth, pc>>
NoCall == [kind |-> "none", h |-> "none"]
NoArg == [n |-> 0, v |-> Zero]
vars == <<contents, aborted, mutex, op, arg, todo, listed>>

Init ==
  /\ FileInit
  /\ M!Init
  /\ op = [t \in Threads |-> NoCall]
  /\ arg = [t \in Threads |-> NoArg]
  /\ todo = [t \in Threads |-> 0]
  /\ listed = [h \in Handles |-> FALSE]

Kinds == {"read", "seek"} \cup (IF "write" \in Access THEN {"write", "truncate"} ELSE {})
                          \cup {"flush", "close"}

\* A call finds the handle open.
Enter(t, kind, h) ==
  /\ ~aborted
  /\ open[h]
  /\ kind = "close" => t \in Closers
  /\ M!Enter(t)
  /\ op' = [op EXCEPT ![t] = [kind |-> kind, h |-> h]]
  /\ UNCHANGED <<contents, aborted, arg, todo, listed>>

\* What a call is given; a write that would go over MaxSize writes nothing.
Fitting(h) == {n \in Sizes : pos[h] + n <= MaxSize}
Args(c) ==
  CASE c.kind = "write" -> IF Fitting(c.h) = {} THEN {NoArg} ELSE [n : Fitting(c.h), v : Values]
    [] c.kind = "read" -> [n : Sizes, v : {Zero}]
    [] c.kind = "seek" -> [n : 0..(IF Gaps THEN MaxSize ELSE size[c.h]), v : {Zero}]
    [] c.kind = "truncate" -> [n : Truncations, v : {Zero}]
    [] OTHER -> {NoArg}

\* Whether there will be littlefs calls (those in a row count as one): to load
\* pages or to read around them, to flush, unless the handle is closed, and to
\* truncate or close.
Touched(h, n) == {PageOf(p) : p \in pos[h]..(pos[h] + n - 1)}
CoreCalls(c, a) ==
  LET missing == IF Touched(c.h, a.n) \subseteq DOMAIN pages[c.h] THEN 0 ELSE 1
      flush == IF open[c.h] THEN 1 ELSE 0
  IN CASE c.kind = "write" -> missing
       [] c.kind = "read" -> IF pos[c.h] < size[c.h] THEN missing ELSE 0
       [] c.kind = "seek" -> 0
       [] c.kind = "flush" -> flush
       [] c.kind \in {"truncate", "close"} -> 1

\* Mutant: the mutex is not waited for.
LockAnyway(t) ==
  /\ ~aborted
  /\ pc[t] = "entering"
  /\ owner' = t
  /\ depth' = depth + 1
  /\ pc' = [pc EXCEPT ![t] = "held"]
  /\ \E a \in Args(op[t]) :
       /\ arg' = [arg EXCEPT ![t] = a]
       /\ todo' = [todo EXCEPT ![t] = CoreCalls(op[t], a)]
  /\ UNCHANGED <<contents, aborted, op, listed>>

\* std::lock_guard<std::recursive_mutex>.
Lock(t) ==
  /\ ~aborted
  /\ M!Lock(t)
  /\ \E a \in Args(op[t]) :
       /\ arg' = [arg EXCEPT ![t] = a]
       /\ todo' = [todo EXCEPT ![t] = CoreCalls(op[t], a)]
  /\ UNCHANGED <<contents, aborted, op, listed>>

\* LFS_LOCK at the start of a littlefs call, and its assertion.
EnterCore(t) ==
  /\ ~aborted
  /\ pc[t] = "held"
  /\ todo[t] > 0
  /\ IF listed[op[t].h] THEN M!EnterCore(t) /\ UNCHANGED aborted
     ELSE aborted' = TRUE /\ UNCHANGED mutex
  /\ UNCHANGED <<contents, op, arg, todo, listed>>

\* LFS_UNLOCK; lfs_file_close has taken the file off the list.
LeaveCore(t) ==
  /\ ~aborted
  /\ M!LeaveCore(t)
  /\ todo' = [todo EXCEPT ![t] = todo[t] - 1]
  /\ listed' = IF op[t].kind = "close" /\ todo[t] = 1 THEN [listed EXCEPT ![op[t].h] = FALSE] ELSE listed
  /\ UNCHANGED <<contents, aborted, op, arg>>

\* What the call does.
Work(c, a, failed) ==
  CASE c.kind = "write" /\ a # NoArg -> Write(c.h, a.n, a.v, failed)
    [] c.kind = "write" /\ a = NoArg -> UNCHANGED <<contents, aborted>>
    [] c.kind = "read" -> Read(c.h, a.n)
    [] c.kind = "seek" -> Seek(c.h, a.n)
    [] c.kind = "truncate" -> Truncate(c.h, a.n, failed) \/ TruncateFails(c.h, a.n, failed)
    [] c.kind = "flush" -> Flush(c.h, failed)
    [] c.kind = "close" -> Close(c.h, failed)

\* Mutant: a call returns without unlocking.
ReturnLocked(t) ==
  /\ ~aborted
  /\ todo[t] = 0
  /\ pc[t] = "held"
  /\ pc' = [pc EXCEPT ![t] = "idle"]
  /\ \E failed \in Failures(op[t].h) : Work(op[t], arg[t], failed)
  /\ op' = [op EXCEPT ![t] = NoCall]
  /\ arg' = [arg EXCEPT ![t] = NoArg]
  /\ UNCHANGED <<owner, depth, todo, listed>>

\* The work is done, and the lock_guard goes out of scope.
Return(t) ==
  /\ ~aborted
  /\ todo[t] = 0
  /\ M!Return(t)
  /\ \E failed \in Failures(op[t].h) : Work(op[t], arg[t], failed)
  /\ op' = [op EXCEPT ![t] = NoCall]
  /\ arg' = [arg EXCEPT ![t] = NoArg]
  /\ UNCHANGED <<todo, listed>>

\* lfsVFS::open, by whoever has none of the calls left on the old handle.
OpenFile(h) ==
  /\ owner = NoThread
  /\ \A t \in Threads : op[t] = NoCall \/ op[t].h # h
  /\ Open(h)
  /\ listed' = [listed EXCEPT ![h] = TRUE]
  /\ UNCHANGED <<mutex, op, arg, todo>>

\* Power is lost.
PowerLoss ==
  /\ Crash
  /\ M!Reset
  /\ op' = [t \in Threads |-> NoCall]
  /\ arg' = [t \in Threads |-> NoArg]
  /\ todo' = [t \in Threads |-> 0]
  /\ listed' = [h \in Handles |-> FALSE]

Next ==
  \/ \E t \in Threads :
       \/ \E kind \in Kinds, h \in Handles : Enter(t, kind, h)
       \/ Lock(t)
       \/ EnterCore(t)
       \/ LeaveCore(t)
       \/ Return(t)
  \/ \E h \in Handles : OpenFile(h)
  \/ PowerLoss

\* A thread that holds the mutex is scheduled: it takes its next step (which
\* of the three is EnterCore's, LeaveCore's and Return's to say).
Step(t) == ~aborted /\ (M!EnterCore(t) \/ M!LeaveCore(t) \/ M!Return(t))
Fairness == \A t \in Threads : WF_mutex(Step(t))

Spec == Init /\ [][Next]_vars /\ Fairness

-----------------------------------------------------------------------------
(* Properties *)

\* Two threads never work on the pages or in littlefs at the same time
\* (VFSContext::mutex, lfs_bd_cb_lock).
Exclusive == M!Exclusive

\* A thread that has the mutex gives it back, however the mutex is nested, or
\* an assertion ends the program (lfs_bd_cb_lock, lfs_bd_cb_unlock).
MutexReturned == \A t \in Threads : owner = t ~> owner # t \/ aborted
=============================================================================
