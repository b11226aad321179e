----------------------------- MODULE PlainSets -----------------------------
(***************************************************************************)
(* A program with plain sets of the three owning types: BoxedBitSet, and   *)
(* BitSet on an array and on a primitive.  It makes any calls on them.     *)
(* Operators by value, Extend and FromIterator take sets of one type; the  *)
(* methods of the slice take any two.                                      *)
(***************************************************************************)
EXTENDS BoxedBitSet, BitSet

CONSTANTS
  Kinds,    \* the types the sets may have
  Batches,  \* the sequences of sets that are collected or extended with
  Elems     \* the sequences of indices that are

ASSUME ProgramAssumption ==
  /\ Kinds \subseteq {"boxed", "array", "prim"}
  /\ Batches \subseteq Seq(Names)
  /\ Elems \subseteq Seq(Nat)

VARIABLE kind  \* kind[r]: the type of set r

vars == <<store, ret, kind>>

Stores(k) ==
  CASE k = "boxed" -> BoxedStores [] k = "array" -> ArrayStores [] k = "prim" -> PrimStores

Is(r, k) == kind[r] = k
Alike(r, batch) == \A j \in DOMAIN batch : kind[batch[j]] = kind[r]

BoxedNext(r) ==
  /\ Is(r, "boxed")
  /\ \/ WithCapacity(r) \/ OnSet(r)
     \/ \E i \in 0 .. MaxLen * BITS_PER : AtIndex(r, i)
     \/ \E batch \in Batches : Alike(r, batch) /\ (BoxCollect(r, batch) \/ BoxExtend(r, batch))
     \/ \E s \in Names \ {r} : Is(s, "boxed") /\ BoxAssign(r, s)
     \/ \E s \in Names : Is(s, "boxed") /\ BoxComplement(r, s)
     \/ \E s, u \in Names : Is(s, "boxed") /\ Is(u, "boxed") /\ BoxOperator(r, s, u)

Owned(r) ==
  \/ New(r)
  \/ \E i \in 0 .. MaxLen * BITS_PER : FromElement(r, i)
  \/ \E elems \in Elems : ExtendElems(r, elems) \/ CollectElems(r, elems)
  \/ \E batch \in Batches : Alike(r, batch) /\ (CollectSets(r, batch) \/ ExtendSets(r, batch))

ArrayNext(r) ==
  /\ Is(r, "array")
  /\ \/ Owned(r) \/ OnSet(r)
     \/ \E i \in 0 .. MaxLen * BITS_PER : AtIndex(r, i)
     \/ \E s \in Names \ {r} : Is(s, "array") /\ ArrayAssign(r, s)
     \/ \E s \in Names : Is(s, "array") /\ ArrayComplement(r, s)
     \/ \E s, u \in Names : Is(s, "array") /\ Is(u, "array") /\ ArrayOperator(r, s, u)

PrimNext(r) ==
  /\ Is(r, "prim")
  /\ \/ Owned(r) \/ OnSet(r) \/ PrimDrain(r)
     \/ \E i \in 0 .. MaxLen * BITS_PER :
          \/ FromIndex(r, i) \/ PrimCheck(r, i) \/ PrimSet(r, i) \/ PrimInsert(r, i)
          \/ PrimRemove(r, i) \/ PrimToggle(r, i) \/ PrimContains(r, i)
     \/ \E elems \in Elems : FromIndices(r, {elems[j] : j \in DOMAIN elems})
     \/ \E word \in SUBSET Bits :
          \/ PrimUnionFrom(r, word)
          \/ \E s \in Names : Is(s, "prim") /\ PrimUnion(r, s, word)
     \/ \E s \in Names \ {r} : Is(s, "prim") /\ PrimAssign(r, s)
     \/ \E s \in Names : Is(s, "prim") /\ PrimComplement(r, s)
     \/ \E s, u \in Names : Is(s, "prim") /\ Is(u, "prim") /\ PrimOperator(r, s, u)

\* Two sets of any types, as slices.
Slices == \E r \in Names, s \in Names : r # s /\ (InPlace(r, s) \/ AppendFrom(r, s))

Init ==
  /\ kind \in [Names -> Kinds]
  /\ store \in [Names -> BoxedStores]
  /\ \A r \in Names : store[r] \in Stores(kind[r])
  /\ ret = [call |-> "new", panic |-> FALSE, ids |-> {}]

Next ==
  /\ \/ \E r \in Names : BoxedNext(r) \/ ArrayNext(r) \/ PrimNext(r)
     \/ Slices
  /\ UNCHANGED kind

Spec == Init /\ [][Next]_vars

-----------------------------------------------------------------------------
\* The words of every set are 0 .. n - 1, each within its width; an array and a
\* primitive keep their number of words.
TypeOK ==
  /\ kind \in [Names -> Kinds]
  /\ DOMAIN store = Names
  /\ \A r \in Names : store[r] \in Stores(kind[r])
  /\ ret.panic \in BOOLEAN
  /\ ret.ids \subseteq 0 .. MaxLen * BITS_PER - 1

\* The loops over words implement the operations of sets, whatever the types
\* and lengths of the operands: every call changes the sets, and answers, as
\* BoundedSet says, also when it panics halfway.
Bounded == INSTANCE BoundedSet WITH
  members <- [r \in Names |-> Members(store[r])],
  capacity <- [r \in Names |-> Capacity(store[r])],
  ret <- ret,
  Unit <- BITS_PER,
  MaxCap <- MaxLen * BITS_PER
Implements == Bounded!Spec

\* len and is_empty, first and last, sums and searches over the words, agree
\* with the members.
CountsAgree ==
  \A r \in Names : LET a == store[r] IN
    /\ Count(a) = Cardinality(Members(a))
    /\ IsEmpty(a) <=> Members(a) = {}
    /\ \A i \in Members(a) :
         /\ IsFirst(a, Seg(i), Mask(i)) <=> \A j \in Members(a) : i <= j
         /\ IsLast(a, Seg(i), Mask(i)) <=> \A j \in Members(a) : j <= i

\* The relations of two sets of any lengths are those of their members: a zero
\* word past the end of the other is no difference, a bit there is.
RelationsAgree ==
  \A r, s \in Names : LET a == store[r]  b == store[s] IN
    /\ IsSubset(a, b) <=> Members(a) \subseteq Members(b)
    /\ IsDisjoint(a, b) <=> Members(a) \cap Members(b) = {}
    /\ Equal(a, b) <=> Members(a) = Members(b)

\* Where a type has a relation or == of its own, which hides the slice's, the
\* two agree: a call through Deref never answers otherwise.
OwnRelationsAgree ==
  \A r, s \in Names : LET a == store[r]  b == store[s] IN
    kind[r] = kind[s] /\ kind[r] # "boxed" =>
      /\ OwnEqual(a, b) <=> Equal(a, b)
      /\ ArrayIsSubset(a, b) <=> IsSubset(a, b)
      /\ ArrayIsSuperset(a, b) <=> IsSubset(b, a)
      /\ ArrayIsDisjoint(a, b) <=> IsDisjoint(a, b)
      /\ Is(r, "prim") =>
           /\ PrimIsSubset(a, b) <=> IsSubset(a, b)
           /\ PrimIsSuperset(a, b) <=> IsSubset(b, a)
           /\ PrimIsDisjoint(a, b) <=> IsDisjoint(a, b)

\* cmp of two arrays or primitives is a strict total order of the sets, which
\* agrees with == and is transitive by way of any third set of the type, and a
\* proper subset comes first in it.
OrderExtendsInclusion ==
  \A r, s \in Names : LET a == store[r]  b == store[s] IN
    kind[r] = kind[s] /\ kind[r] # "boxed" =>
      /\ OwnEqual(a, b) \/ Less(a, b) \/ Less(b, a)
      /\ ~ (Less(a, b) /\ Less(b, a))
      /\ \A c \in Stores(kind[r]) : Less(a, c) /\ Less(c, b) => Less(a, b)
      /\ IsSubset(a, b) => OwnEqual(a, b) \/ Less(a, b)

\* Slices and boxed sets that are equal hash the same words, and those that are
\* not hash different ones: a set can be a key of a map whatever its capacity.
HashFollowsEq ==
  \A r, s \in Names : LET a == store[r]  b == store[s] IN
    Equal(a, b) <=> Hashed(a) = Hashed(b)

\* Formatted in a base whose digits divide a word (binary, hexadecimal), an
\* array reads back as its number.
DigitsReadBack ==
  \A r \in Names, g \in 1 .. BITS_PER :
    BITS_PER % g = 0 => Written(store[r], g) = Combined(store[r])

\* "In-place symmetric difference with other": a ^= b leaves in a what a ^ b is.
XorInPlace ==
  \A r, s \in Names :
    Equal(SymmetricDifferenceFrom(store[r], store[s]), BitXor(store[r], store[s]))

=============================================================================
