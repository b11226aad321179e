------------------------------- MODULE BitSet -------------------------------
(***************************************************************************)
(* BitSet<A, V> on one primitive and BitSet<[T; N], V> on an array of      *)
(* them, src/src/bitset.rs.  Both deref to BitSlice; what they define      *)
(* themselves is here.  A primitive is a slice of one word: Word(r).       *)
(***************************************************************************)
EXTENDS BitSlice

Word(r) == store[r][0]
PutWord(r, word) == SetWord(r, 0, word)
BITS == BITS_PER

-----------------------------------------------------------------------------
\* Construction.

\* new and default, all words ZERO.
New(r) == Put(r, Zero(NumWords(store[r]))) /\ Answer("new", {})

\* from_bits takes any words.
ArrayStores == Words(MaxLen)
PrimStores == Words(1)

\* The words a with the bits of some indices added, those beyond them not.
Adding(a, ids) == [k \in DOMAIN a |-> a[k] \cup {Mask(i) : i \in {j \in ids : Seg(j) = k}}]

\* from_element is new and set; from_index of a primitive panics too.
FromElement(r, i) ==
  IF Checked(r, i)
  THEN Put(r, Adding(Zero(NumWords(store[r])), {i})) /\ Answer("from_element", {})
  ELSE Panic /\ UNCHANGED store

FromIndex(r, i) ==
  IF i >= BITS THEN Panic /\ UNCHANGED store
               ELSE PutWord(r, {i}) /\ Answer("from_element", {})

\* from_indices shifts by any index: beyond the width a debug build panics, a
\* release build shifts by the index modulo the width.
FromIndices(r, ids) ==
  \/ /\ ids \subseteq Bits
     /\ PutWord(r, ids)
     /\ Answer("from_indices", {})
  \/ /\ ~ (ids \subseteq Bits)
     /\ \/ Panic /\ UNCHANGED store
        \/ PutWord(r, {i % BITS : i \in ids}) /\ Answer("from_indices", {})

-----------------------------------------------------------------------------
\* The primitive's own methods on one index.

PrimCheck(r, i) == i >= BITS /\ Panic /\ UNCHANGED store

PrimSet(r, i) ==
  /\ i < BITS
  /\ \/ PutWord(r, Word(r) \cup {i}) /\ Answer("set true", {})
     \/ /\ IF i \in Word(r) THEN PutWord(r, Word(r) \ {i}) ELSE UNCHANGED store
        /\ Answer("set false", {})

PrimInsert(r, i) ==
  /\ i < BITS
  /\ PutWord(r, Word(r) \cup {i})
  /\ Answer("insert", {i} \ Word(r))

PrimRemove(r, i) ==
  /\ i < BITS
  /\ IF i \in Word(r) THEN PutWord(r, Word(r) \ {i}) ELSE UNCHANGED store
  /\ Answer("remove", {i} \cap Word(r))

PrimToggle(r, i) ==
  /\ i < BITS
  /\ PutWord(r, XorWord(Word(r), {i}))
  /\ Answer("toggle", {})

PrimContains(r, i) ==
  /\ i < BITS
  /\ Answer("contains", {i} \cap Word(r))
  /\ UNCHANGED store

\* drain takes the word at once, however far its iterator is used.
PrimDrain(r) ==
  /\ PutWord(r, {})
  /\ \E n \in 0 .. BITS : Answer("drain", {i \in Word(r) : i < n})

-----------------------------------------------------------------------------
\* Operators.  union, difference and union_from of a primitive take a raw word.

PrimUnion(q, r, word) ==
  \/ PutWord(q, OrWord(Word(r), word)) /\ Answer("union", {})
  \/ PutWord(q, SubWord(Word(r), word)) /\ Answer("difference", {})

PrimUnionFrom(r, word) == PutWord(r, OrWord(Word(r), word)) /\ Answer("union_from", {})

\* | & ^ - ! of primitives, and in place.

PrimOperator(q, r, s) ==
  \/ PutWord(q, OrWord(Word(r), Word(s))) /\ Answer("|", {})
  \/ PutWord(q, AndWord(Word(r), Word(s))) /\ Answer("&", {})
  \/ PutWord(q, SubWord(Word(r), Word(s))) /\ Answer("-", {})
  \/ PutWord(q, XorWord(Word(r), Word(s))) /\ Answer("^", {})

PrimAssign(r, s) ==
  \/ PutWord(r, OrWord(Word(r), Word(s))) /\ Answer("|=", {})
  \/ PutWord(r, AndWord(Word(r), Word(s))) /\ Answer("&=", {})
  \/ PutWord(r, SubWord(Word(r), Word(s))) /\ Answer("-=", {})
  \/ PutWord(r, XorWord(Word(r), Word(s))) /\ Answer("^=", {})

PrimComplement(q, r) == PutWord(q, Bits \ Word(r)) /\ Answer("!", {})

\* Arrays of one length: from_fn word by word; in place, the slice's methods.
FromFn(Op(_, _), a, b) == [k \in DOMAIN a |-> Op(a[k], b[k])]

ArrayOperator(q, r, s) ==
  \/ Put(q, FromFn(OrWord, store[r], store[s])) /\ Answer("|", {})
  \/ Put(q, FromFn(AndWord, store[r], store[s])) /\ Answer("&", {})
  \/ Put(q, FromFn(SubWord, store[r], store[s])) /\ Answer("-", {})
  \/ Put(q, FromFn(XorWord, store[r], store[s])) /\ Answer("^", {})

ArrayAssign(r, s) == InPlace(r, s)

ArrayComplement(q, r) ==
  Put(q, [k \in DOMAIN store[r] |-> Bits \ store[r][k]]) /\ Answer("!", {})

-----------------------------------------------------------------------------
\* Relations: the primitive's const ones, and the array's zip of two arrays of
\* one length, next to the ones of the slice.

PrimIsSubset(a, b) == a[0] \cap b[0] = a[0]
PrimIsSuperset(a, b) == a[0] \cap b[0] = b[0]
PrimIsDisjoint(a, b) == a[0] \cap b[0] = {}

\* A bug: any word within the other's is enough.
ArrayIsSubsetAny(a, b) == \E k \in DOMAIN a : a[k] \cap b[k] = a[k]

ArrayIsSubset(a, b) == \A k \in DOMAIN a : a[k] \cap b[k] = a[k]

ArrayIsSuperset(a, b) == ArrayIsSubset(b, a)
ArrayIsDisjoint(a, b) == \A k \in DOMAIN a : a[k] \cap b[k] = {}

\* x < y as unsigned numbers: the highest bit they differ in is in y.
WordLess(x, y) == \E b \in y \ x : \A c \in x \ y : c < b

\* A bug: a difference in any word decides, whatever the words before it.
LessAnywhere(a, b) == \E k \in DOMAIN a : WordLess(a[k], b[k])

\* cmp of primitives, and of arrays, the first word first.
Less(a, b) ==
  \E k \in DOMAIN a :
    WordLess(a[k], b[k]) /\ \A j \in DOMAIN a : j < k => a[j] = b[j]

\* == of primitives and arrays takes every word.
OwnEqual(a, b) == a = b

-----------------------------------------------------------------------------
\* Elements: a sequence of indices is put in one by one; one out of range
\* panics, and those before it are in.

InRange(r, elems) == \A j \in DOMAIN elems : Checked(r, elems[j])

BeforePanic(r, elems) ==
  {elems[j] : j \in {l \in DOMAIN elems : \A m \in 1 .. l : Checked(r, elems[m])}}

ExtendElems(r, elems) ==
  /\ Put(r, Adding(store[r], BeforePanic(r, elems)))
  /\ IF InRange(r, elems) THEN Answer("extend", {}) ELSE Panic

CollectElems(q, elems) ==
  IF InRange(q, elems)
  THEN /\ Put(q, Adding(Zero(NumWords(store[q])), BeforePanic(q, elems)))
       /\ Answer("collect", {})
  ELSE Panic /\ UNCHANGED store

\* Sets of the same type: word by word, |=.
AllAt(batch, k) == UNION {store[batch[j]][k] : j \in DOMAIN batch}

CollectSets(q, batch) ==
  /\ Put(q, [k \in DOMAIN store[q] |-> AllAt(batch, k)])
  /\ Answer("collect", {})

ExtendSets(r, batch) ==
  /\ Put(r, [k \in DOMAIN store[r] |-> store[r][k] \cup AllAt(batch, k)])
  /\ Answer("extend", {})

-----------------------------------------------------------------------------
\* Binary, Octal and hexadecimal formatting.  The number of a word, and the
\* number of the whole array, whose word k weighs 2 ^ (k * BITS_PER).

Number(word) == SumFunction([b \in word |-> 2 ^ b])
Combined(a) == SumFunction([k \in DOMAIN a |-> Number(a[k]) * 2 ^ (k * BITS_PER)])

\* A bug: one digit too few for a word.
PaddingShort(g) == (BITS_PER - 1) \div g

\* The digits of g bits that a word is padded to, div_ceil.
Padding(g) == (BITS_PER + g - 1) \div g

\* The words are written from the last to the first, each but the leading one
\* padded: the number that the digits denote.
Written(a, g) ==
  SumFunction([k \in DOMAIN a |-> Number(a[k]) * 2 ^ (k * Padding(g) * g)])

=============================================================================
