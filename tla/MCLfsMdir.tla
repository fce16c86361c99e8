------------------------------ MODULE MCLfsMdir ------------------------------
(* LfsMdir on small instances, with the properties that make a metadata    *)
(* pair a safe place to keep a directory.                                  *)
EXTENDS LfsMdir, TLC

\* At most one block carries the remains of an earlier use; the others are
\* erased.  The block of a new pair that is written first loses its contents
\* anyway, so one is enough to meet a stale sibling.
MCInit == Init /\ Cardinality({b \in Blocks : disk[b] # ErasedBlock}) <= 1
MCSpec == MCInit /\ [][Next]_vars
Symmetry == Permutations(Blocks) \cup Permutations(Value)

\* What later steps and the properties can tell apart: of a block the value
\* of its last commit, and the operation while it runs or was acknowledged.
MCBlock(b) == [rev |-> b.rev, off |-> b.off, clean |-> b.clean,
               v |-> IF b.off \in 1..Cap THEN b.at[b.off] ELSE Absent]
MCView ==
  <<[b \in Blocks |-> MCBlock(disk[b])], link, ram, ldir, pc, relocated, tired, ret = "ok",
    IF Idle THEN {} ELSE taken,
    IF Idle THEN (IF ret = "ok" THEN op.v ELSE Absent) ELSE op>>

=============================================================================
