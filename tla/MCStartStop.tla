---------------------------- MODULE MCStartStop ----------------------------
(***************************************************************************)
(* Small instances of StartStop: whole blocks, one at a time or the first  *)
(* two with different data, so that merging one of them into the wrong     *)
(* place shows.                                                            *)
(***************************************************************************)
EXTENDS StartStop, TLC

CONSTANT NumBlocks

MCBlock == 0..(NumBlocks - 1)
MCPart == {1}

Only(b) == [x \in MCBlock |-> IF x = b THEN MCPart ELSE {}]
FirstTwo == [x \in MCBlock |-> IF x \in {0, 1} THEN MCPart ELSE {}]
Plain(d) == [b \in MCBlock |-> [p \in MCPart |-> d]]
Stripes == [b \in MCBlock |-> [p \in MCPart |-> b % 2]]

MCRequest ==
  [op : {"read"}, parts : {Only(b) : b \in MCBlock}, val : {Plain(0)}]
    \cup [op : {"write"}, parts : {Only(b) : b \in MCBlock}, val : {Plain(0), Plain(1)}]
    \cup [op : {"write"}, parts : {FirstTwo}, val : {Stripes}]

\* For what does not depend on the data: one block is written at a time.
MCWrites == [op : {"write"}, parts : {Only(b) : b \in MCBlock}, val : {Plain(0)}]

\* IRPs of which all are alike.
Symmetry == Permutations(Irp)
=============================================================================
