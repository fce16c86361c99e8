----------------------------- MODULE VfsLocking ------------------------------
(***************************************************************************)
(* The mutex of the VFS, a recursive one.                                  *)
(*                                                                         *)
(* A call takes it, and each littlefs call inside takes it once more       *)
(* through the lock hook of the configuration and gives it back.  What the *)
(* calls do with it held is in VfsShared, whose steps take these ones.     *)
(***************************************************************************)
EXTENDS Integers

CONSTANTS
  Threads,    \* the threads that call
  NoThread    \* the owner of a free mutex, no thread

VARIABLES
  owner,     \* the thread that holds the mutex
  depth,     \* how often it holds it
  pc         \* per thread: "idle", "entering", "held" or "core"

vars == <<owner, depth, pc>>

Init ==
  /\ owner = NoThread
  /\ depth = 0
  /\ pc = [t \in Threads |-> "idle"]

\* A call begins.
Enter(t) ==
  /\ pc[t] = "idle"
  /\ pc' = [pc EXCEPT ![t] = "entering"]
  /\ UNCHANGED <<owner, depth>>

\* Thread t locks the recursive mutex, and goes on at l.
Acquire(t, l) ==
  /\ owner \in {NoThread, t}
  /\ owner' = t
  /\ depth' = depth + 1
  /\ pc' = [pc EXCEPT ![t] = l]

\* Thread t unlocks it.
Release(t, l) ==
  /\ depth' = depth - 1
  /\ owner' = IF depth = 1 THEN NoThread ELSE owner
  /\ pc' = [pc EXCEPT ![t] = l]

\* std::lock_guard<std::recursive_mutex>.
Lock(t) == pc[t] = "entering" /\ Acquire(t, "held")

\* LFS_LOCK and LFS_UNLOCK of a littlefs call.
EnterCore(t) == pc[t] = "held" /\ Acquire(t, "core")
LeaveCore(t) == pc[t] = "core" /\ Release(t, "held")

\* The lock_guard goes out of scope.
Return(t) == pc[t] = "held" /\ Release(t, "idle")

\* Power is lost.
Reset ==
  /\ owner' = NoThread
  /\ depth' = 0
  /\ pc' = [t \in Threads |-> "idle"]

Next ==
  \/ \E t \in Threads : Enter(t) \/ Lock(t) \/ EnterCore(t) \/ LeaveCore(t) \/ Return(t)
  \/ Reset

Spec == Init /\ [][Next]_vars

-----------------------------------------------------------------------------
(* Properties *)

\* Two threads never work on the pages or in littlefs at the same time
\* (VFSContext::mutex, lfs_bd_cb_lock).
Exclusive ==
  \A s, t \in Threads :
    pc[s] \in {"held", "core"} /\ pc[t] \in {"held", "core"} => s = t
=============================================================================
