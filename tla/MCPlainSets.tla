---------------------------- MODULE MCPlainSets ----------------------------
(***************************************************************************)
(* A small instance of PlainSets: two sets, the batches of them, and       *)
(* elements in and out of range of each type.                              *)
(***************************************************************************)
EXTENDS PlainSets, TLC

CONSTANTS x, y

AllKinds == {"boxed", "array", "prim"}
OnlyBoxed == {"boxed"}
OnlyArray == {"array"}
SmallBatches == {<<>>, <<x>>, <<y>>, <<y, x>>, <<x, y>>}
SmallElems == {<<>>, <<1>>, <<3, 0>>, <<0, 4, 1>>}

Either == Permutations(Names)

\* No step depends on ret: states that differ in the last answer only have the
\* same successors, and every answer is checked on the step that gives it.
Contents == <<store, kind>>

=============================================================================
