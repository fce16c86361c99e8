------------------------------ MODULE AtomicTree ------------------------------
(***************************************************************************)
(* What the directory operations of littlefs promise: the file system is   *)
(* a tree of names, every operation changes it in one step or not at all,  *)
(* and a loss of power never changes it.                                   *)
(*                                                                         *)
(* The tree is a set of nodes, each a path, the sequence of names that     *)
(* lead to it from the root, and what is there, a file or a directory.     *)
(***************************************************************************)
EXTENDS Naturals, FiniteSetsExt, SequencesExt

CONSTANTS
  Names,     \* names an entry may have
  Files,     \* files
  Directory  \* what is at the path of a directory, none of Files

VARIABLE tree

Paths == {x.path : x \in tree}
At(p) == {x \in tree : x.path = p}
Below(p) == {x \in tree : IsStrictPrefix(p, x.path)}
IsDir(p) == p = <<>> \/ \E x \in At(p) : x.obj = Directory

Init == tree = {}

(* A new file, or a new and empty directory, under a name not in use. *)
Make(x) ==
  /\ x.obj \in Files \cup {Directory}
  /\ Last(x.path) \in Names /\ IsDir(Front(x.path)) /\ x.path \notin Paths
  /\ tree' = tree \cup {x}

(* A node goes; a directory only when nothing is left in it. *)
Delete(x) ==
  /\ Below(x.path) = {}
  /\ tree' = tree \ {x}

(* A node moves from p to q with all that is below it, to the place of one *)
(* of its own kind perhaps, and nothing else changes.                      *)
MoveTo(p, q) ==
  LET moved == At(p) \cup Below(p) IN
  /\ Last(q) \in Names /\ IsDir(Front(q)) /\ ~IsPrefix(p, q)
  /\ Below(q) = {} /\ (At(q) # {} => IsDir(p) = IsDir(q))
  /\ tree' = (tree \ (moved \cup At(q)))
               \cup {[x EXCEPT !.path = q \o SubSeq(@, Len(p) + 1, Len(@))] : x \in moved}

(* x is a node the step takes away or brings, y one that is there after it.*)
Next ==
  \E x \in SymDiff(tree, tree') :
    \/ Make(x) \/ Delete(x)
    \/ \E y \in tree' : MoveTo(x.path, y.path)

Spec == Init /\ [][Next]_tree
===============================================================================
