---------------------------- MODULE MCLfsBdCache -----------------------------
(* LfsBdCache on two small blocks; blocks and bytes are interchangeable. *)
EXTENDS LfsBdCache, TLC

Symmetry == Permutations(Blocks) \cup Permutations(Values)

\* States are told apart by what a step to come, or a property, looks at.  Of
\* a caller's read: nothing once it has all its bytes, and write_cache only if
\* it is of the block that is read.
ReadView ==
  IF rd.why # "caller" THEN rd
  ELSE IF rd.left = 0 THEN NoRead
  ELSE [rd EXCEPT !.through = rd.through /\ rd.block = write_cache.block]

\* Of the value of a task, nothing once it writes no more.
TaskView ==
  IF task # NoTask /\ (then = "finish" \/ (left = 0 /\ end[task.block] = BlockSize))
  THEN [task EXCEPT !.value = Erased] ELSE task

\* Of sealed, the blocks that the next commit may be appended to; of
\* programmed, the blocks that may be programmed without another erase.
Appendable ==
  {b \in Blocks : b # task.block /\ stable[b] \in 1..(BlockSize - 1) /\ ~sealed[b]}
ProgrammedView ==
  [b \in Blocks |-> IF b \in Appendable \cup {task.block, write_cache.block}
                    THEN programmed[b] ELSE 0]

MCView ==
  <<storage, ProgrammedView, write_cache, read_cache, unloaded, TaskView, left,
    ReadView, pc, then, want, end, stable, Appendable, aborted>>
=============================================================================
