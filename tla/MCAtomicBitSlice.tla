------------------------- MODULE MCAtomicBitSlice -------------------------
(***************************************************************************)
(* Small instances of AtomicBitSlice: the lengths of the slices and the    *)
(* calls of each run.                                                      *)
(***************************************************************************)
EXTENDS AtomicBitSlice, TLC

CONSTANTS t1, t2, s1, s2

ThreadSymmetry == Permutations(Threads)

TwoWords == [s \in Slices |-> 2]
ShortLong == [s \in Slices |-> IF s = s1 THEN 1 ELSE 2]

\* A call on slice s1 alone.
On(op, id) == [op |-> op, self |-> s1, other |-> s1, id |-> id, arg |-> {}]
OnAll(op) == On(op, 0)
With(op, arg) == [On(op, 0) EXCEPT !.arg = arg]
Pair(op, s, o) == [op |-> op, self |-> s, other |-> o, id |-> 0, arg |-> {}]

\* One index per bit of two words of two bits, and the first out of range; V cannot
\* hold the index 2, which iter and retain do not survive.
PointCalls ==
  {On("insert", 3), On("insert", 4), On("set_true", 0), On("remove", 2),
   On("set_false", 0), On("toggle", 1), On("contains", 3)}
WalkCalls ==
  {OnAll(op) : op \in {"pop_first", "pop_last", "first", "last",
                       "len", "iter", "is_empty", "drain", "clear"}}
  \cup {With("retain", {1}), With("union_from", {0, 3})}
SliceCalls == PointCalls \cup WalkCalls

PairCalls ==
  {Pair(op, p[1], p[2]) : op \in {"is_subset", "append"},
                          p \in {<<s1, s2>>, <<s2, s1>>}}
  \cup {Pair("is_disjoint", s1, s2), On("insert", 0), OnAll("pop_last"),
        [On("remove", 0) EXCEPT !.self = s2]}

=============================================================================
