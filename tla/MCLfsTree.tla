------------------------------ MODULE MCLfsTree ------------------------------
(* LfsTree on a few pairs; which of them a new directory gets is symmetric. *)
EXTENDS LfsTree, TLC

CONSTANTS pr, ps, pt, pu, pv, f1

MCPairs == {pr, ps, pt}
MCPairs5 == {pr, ps, pt, pu, pv}
MCFiles == {f1}
(* Nobody reads a pair that neither the list nor a name leads to and that  *)
(* is not about to be linked.                                              *)
MCLive == Used \cup UNION {Chain(p) : p \in Reached \cup (InFlight \ New)}
MCView ==
  <<[p \in MCLive |-> disk[p]], {k \in kin : k \subseteq MCLive}, gstate, gdisk, gdelta, found,
    pc, op, reloc, calls, relocs, fails>>
MCSymmetry == Permutations({ps, pt, pu, pv})
=============================================================================
