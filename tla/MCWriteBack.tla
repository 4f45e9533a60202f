---------------------------- MODULE MCWriteBack ----------------------------
(***************************************************************************)
(* Small instances of WriteBack.  A request covers the parts of the volume *)
(* between two positions, as offset and length do; the read of length 0 is *)
(* always among them.  A write stores one value throughout.                *)
(***************************************************************************)
EXTENDS WriteBack

CONSTANTS NumBlocks, NumParts

MCBlock == 0..(NumBlocks - 1)
MCPart == 1..NumParts

\* Positions from..to of the volume, counted in parts from 1.
Span(from, to) ==
  [b \in MCBlock |-> {p \in MCPart : b * NumParts + p \in from..to}]

Plain(d) == [b \in MCBlock |-> [p \in MCPart |-> d]]

Requests(spans, payloads) ==
  [op : {"read"}, parts : spans \cup {Span(1, 0)}, val : {Plain(0)}]
    \cup [op : {"write"}, parts : spans, val : payloads]

\* One block at a time: both are written, the first one is also read and overwritten.
MCSingleBlocks ==
  [op : {"write"}, parts : {Span(1, 1), Span(2, 2)}, val : {Plain(1)}]
    \cup [op : {"read", "write"}, parts : {Span(1, 1)}, val : {Plain(0)}]

\* Three blocks of two parts: one, two or three whole blocks, broken fronts and broken ends.
MCBroken ==
  Requests({Span(1, 2), Span(3, 4), Span(5, 6), Span(1, 6), Span(2, 5), Span(4, 5)}, {Plain(1)})
    \cup Requests({Span(3, 6), Span(2, 5)}, {Plain(0)})
=============================================================================
