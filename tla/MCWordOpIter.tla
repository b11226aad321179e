---------------------------- MODULE MCWordOpIter ----------------------------
(***************************************************************************)
(* Small instances of WordOpIter: every operation on slices of equal and   *)
(* unequal lengths, plain and atomic.                                      *)
(***************************************************************************)
EXTENDS WordOpIter

OpNames == {"union", "intersection", "difference", "symmetric_difference"}
ShapesOf(lengths, kinds, ops, v) ==
  {[a |-> n[1], b |-> n[2], atomic |-> kind, op |-> f, v |-> v] :
     n \in lengths, kind \in kinds, f \in ops}

\* A V that holds every index of two words, and one that holds not all of them.
Wide == 0 .. 2 * BITS_PER - 1
Narrow == Wide \ {BITS_PER}

\* Two atomic pairs of words with all their writes are the largest case: one
\* operation, which is not symmetric, stands for the four.
AllShapes ==
  ShapesOf({<<0, 1>>, <<1, 2>>, <<2, 1>>}, BOOLEAN, OpNames, Wide)
  \cup ShapesOf({<<2, 2>>}, {FALSE}, OpNames, Wide)
  \cup ShapesOf({<<2, 2>>}, {TRUE}, {"difference"}, Wide)
  \cup ShapesOf({<<1, 2>>}, BOOLEAN, {"union", "symmetric_difference"}, Narrow)

=============================================================================
