------------------------------ MODULE BitSlice ------------------------------
(***************************************************************************)
(* BitSlice<T, V>, src/src/slice.rs: the words that BoxedBitSet, BitSet    *)
(* and BitSet<[T; N]> deref to, with the methods the three share, each a   *)
(* loop over the words.  &mut self keeps everybody else out, so a method   *)
(* is one step.  A word is the set of its 1 bits.                          *)
(*                                                                         *)
(* A program has some sets, of its own choice of types; PlainSets composes *)
(* this module with the owners of the words and runs them.                 *)
(***************************************************************************)
EXTENDS Integers, FiniteSets, Sequences, Functions

CONSTANTS
  BITS_PER,  \* the bits of a word
  Names,     \* the sets of the program
  MaxLen     \* bound: the words of a set

ASSUME SliceAssumption == BITS_PER \in Nat \ {0} /\ MaxLen \in Nat \ {0}

VARIABLES
  store,  \* store[r]: the words of set r, 0 .. n - 1
  ret     \* the last call: the method, and whether it panicked or the indices
          \* it answered with

Bits == 0 .. BITS_PER - 1
Words(n) == [0 .. n - 1 -> SUBSET Bits]
NumWords(a) == Cardinality(DOMAIN a)
Capacity(a) == NumWords(a) * BITS_PER
Zero(n) == [k \in 0 .. n - 1 |-> {}]

\* index_of, and the index of a bit.
Seg(i) == i \div BITS_PER
Mask(i) == i % BITS_PER
IdxOf(k, b) == k * BITS_PER + b

\* The set of indices behind the words, which iter walks (SliceIter).
Members(a) == {i \in 0 .. Capacity(a) - 1 : Mask(i) \in a[Seg(i)]}

-----------------------------------------------------------------------------
\* The loops over the words of two sets, a zip that stops at the shorter one.

Zip(Op(_, _), a, b) ==
  [k \in DOMAIN a |-> IF k \in DOMAIN b THEN Op(a[k], b[k]) ELSE a[k]]
OrWord(x, y) == x \cup y
AndWord(x, y) == x \cap y
SubWord(x, y) == x \ y
XorWord(x, y) == (x \ y) \cup (y \ x)
ZeroPast(a, b) == [k \in DOMAIN a |-> IF k \in DOMAIN b THEN a[k] ELSE {}]

UnionFrom(a, b) == Zip(OrWord, a, b)

\* A bug: the words past b are left alone.
IntersectFromShort(a, b) == Zip(AndWord, a, b)

IntersectFrom(a, b) == ZeroPast(Zip(AndWord, a, b), b)

DifferenceFrom(a, b) == Zip(SubWord, a, b)

SymmetricDifferenceFrom(a, b) == Zip(XorWord, a, b)

\* is_subset, is_disjoint, eq and hash look at the words too.
\* A bug: the words of a past b are not looked at.
IsSubsetShort(a, b) == \A k \in DOMAIN a \cap DOMAIN b : a[k] \cap b[k] = a[k]

IsSubset(a, b) ==
  /\ \A k \in DOMAIN a \cap DOMAIN b : a[k] \cap b[k] = a[k]
  /\ \A k \in DOMAIN a \ DOMAIN b : a[k] = {}

IsDisjoint(a, b) == \A k \in DOMAIN a \cap DOMAIN b : a[k] \cap b[k] = {}

Equal(a, b) ==
  /\ \A k \in DOMAIN a \cap DOMAIN b : a[k] = b[k]
  /\ \A k \in DOMAIN a \ DOMAIN b : a[k] = {}
  /\ \A k \in DOMAIN b \ DOMAIN a : b[k] = {}

\* A bug: every word is hashed.
HashedAll(a) == a

\* The words given to the hasher: up to the last that is not zero.
Hashed(a) == [k \in {j \in DOMAIN a : \E l \in DOMAIN a : j <= l /\ a[l] # {}} |-> a[k]]

\* A bug: the first word is not counted.
CountTail(a) == SumFunction([k \in DOMAIN a \ {0} |-> Cardinality(a[k])])

\* len sums the words, is_empty looks for one that is not zero.
Count(a) == SumFunction([k \in DOMAIN a |-> Cardinality(a[k])])

IsEmpty(a) == \A k \in DOMAIN a : a[k] = {}

\* The ends: the first or the last word that is not zero, and its lowest or
\* its highest bit.
IsFirst(a, k, b) ==
  /\ \A j \in DOMAIN a : j < k => a[j] = {}
  /\ b \in a[k] /\ \A c \in a[k] : b <= c
IsLast(a, k, b) ==
  /\ \A j \in DOMAIN a : j > k => a[j] = {}
  /\ b \in a[k] /\ \A c \in a[k] : b >= c

-----------------------------------------------------------------------------
Put(r, a) == store' = [store EXCEPT ![r] = a]
Answer(call, ids) == ret' = [call |-> call, panic |-> FALSE, ids |-> ids]
Panic == ret' = [call |-> "check_bit_index", panic |-> TRUE, ids |-> {}]

\* Every method with an index starts with check_bit_index.
CheckBitIndex(r, i) == i >= Capacity(store[r]) /\ Panic /\ UNCHANGED store
Checked(r, i) == i < Capacity(store[r])
SetWord(r, k, word) == store' = [store EXCEPT ![r][k] = word]
IsSet(r, i) == Mask(i) \in store[r][Seg(i)]

Insert(r, i) ==
  /\ Checked(r, i)
  /\ SetWord(r, Seg(i), store[r][Seg(i)] \cup {Mask(i)})
  /\ Answer("insert", IF IsSet(r, i) THEN {} ELSE {i})

Remove(r, i) ==
  /\ Checked(r, i)
  /\ IF IsSet(r, i) THEN SetWord(r, Seg(i), store[r][Seg(i)] \ {Mask(i)})
                    ELSE UNCHANGED store
  /\ Answer("remove", IF IsSet(r, i) THEN {i} ELSE {})

Set(r, i) ==
  /\ Checked(r, i)
  /\ \/ SetWord(r, Seg(i), store[r][Seg(i)] \cup {Mask(i)}) /\ Answer("set true", {})
     \/ SetWord(r, Seg(i), store[r][Seg(i)] \ {Mask(i)}) /\ Answer("set false", {})

Toggle(r, i) ==
  /\ Checked(r, i)
  /\ SetWord(r, Seg(i), XorWord(store[r][Seg(i)], {Mask(i)}))
  /\ Answer("toggle", {})

\* contains, and the index operator.
Contains(r, i) ==
  /\ Checked(r, i)
  /\ Answer("contains", IF IsSet(r, i) THEN {i} ELSE {})
  /\ UNCHANGED store

Take(r, k, b, call) ==
  SetWord(r, k, store[r][k] \ {b}) /\ Answer(call, {IdxOf(k, b)})
TakeNone(r, call) == IsEmpty(store[r]) /\ Answer(call, {}) /\ UNCHANGED store

PopFirst(r) ==
  \/ TakeNone(r, "pop_first")
  \/ \E k \in DOMAIN store[r], b \in Bits :
       IsFirst(store[r], k, b) /\ Take(r, k, b, "pop_first")

PopLast(r) ==
  \/ TakeNone(r, "pop_last")
  \/ \E k \in DOMAIN store[r], b \in Bits :
       IsLast(store[r], k, b) /\ Take(r, k, b, "pop_last")

Clear(r) == Put(r, Zero(NumWords(store[r]))) /\ Answer("clear", {})

\* drain: the caller takes some items and drops the iterator, which clears the
\* rest (SliceIter has it item by item).
Drain(r) ==
  /\ Put(r, Zero(NumWords(store[r])))
  /\ \E n \in 0 .. Capacity(store[r]) :
       Answer("drain", {i \in Members(store[r]) : i < n})

\* retain clears the bits its closure rejects, word by word.
Retain(r) ==
  /\ \E kept \in SUBSET Members(store[r]) :
       Put(r, [k \in DOMAIN store[r] |-> {b \in store[r][k] : IdxOf(k, b) \in kept}])
  /\ Answer("retain", {})

\* append moves the words both have.
AppendFrom(r, s) ==
  /\ store' = [store EXCEPT ![r] = Zip(OrWord, store[r], store[s]),
                            ![s] = [k \in DOMAIN store[s] |->
                                      IF k \in DOMAIN store[r] THEN {} ELSE store[s][k]]]
  /\ Answer("append", {})

\* union_from .. symmetric_difference_from.
InPlace(r, s) ==
  \/ Put(r, UnionFrom(store[r], store[s])) /\ Answer("|=", {})
  \/ Put(r, IntersectFrom(store[r], store[s])) /\ Answer("&=", {})
  \/ Put(r, DifferenceFrom(store[r], store[s])) /\ Answer("-=", {})
  \/ Put(r, SymmetricDifferenceFrom(store[r], store[s])) /\ Answer("^=", {})

\* The methods on one set, with an index and without.
AtIndex(r, i) ==
  CheckBitIndex(r, i) \/ Insert(r, i) \/ Remove(r, i) \/ Set(r, i) \/ Toggle(r, i)
  \/ Contains(r, i)
OnSet(r) == PopFirst(r) \/ PopLast(r) \/ Clear(r) \/ Drain(r) \/ Retain(r)

=============================================================================
