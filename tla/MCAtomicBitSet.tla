--------------------------- MODULE MCAtomicBitSet ---------------------------
(***************************************************************************)
(* Small instances of AtomicBitSet: the calls of each run.                 *)
(***************************************************************************)
EXTENDS AtomicBitSet, TLC

CONSTANTS t1, t2, t3

ThreadSymmetry == Permutations(Threads)

On(op, id) == [op |-> op, id |-> id, arg |-> {}]
Plain(op) == On(op, 0)
With(op, arg) == [op |-> op, id |-> 0, arg |-> arg]

AllCalls ==
  {Plain(op) : op \in {"pop_first", "pop_last", "drain", "read", "clear"}}
  \cup {With("retain", {1}), With("union_from", {0, 1}), On("remove", 1),
        On("insert", 2), On("insert", 3), On("toggle", 0), On("contains", 1)}

\* pop is two accesses, with a writer in between.
PopAndInsert == {Plain("pop_first"), On("insert", 0)}

=============================================================================
