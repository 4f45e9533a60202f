----------------------------- MODULE MCPolicies -----------------------------
(***************************************************************************)
(* Small instances of Policies; the blocks are interchangeable.  A pool of *)
(* four: one list of four, two of two, a hot list of one and a cold one of *)
(* three.                                                                  *)
(***************************************************************************)
EXTENDS Policies

MCBuild ==
  {[policy |-> "LRU", high |-> 0, queue |-> 3],
   [policy |-> "SLRU", high |-> 2, queue |-> 1],
   [policy |-> "SLRU", high |-> 1, queue |-> 2],
   [policy |-> "OCP", high |-> 2, queue |-> 1],
   [policy |-> "OCP", high |-> 1, queue |-> 2]}

Symmetry == Permutations(Block)
=============================================================================
