---------------------------- MODULE BoxedBitSet ----------------------------
(***************************************************************************)
(* BoxedBitSet<A, V>, src/src/boxed.rs: a boxed slice of words, with the   *)
(* operators by value, which make a set as long as the result needs.       *)
(***************************************************************************)
EXTENDS BitSlice

\* bitor and bitxor keep the longer of their operands.
BitOr(a, b) == IF NumWords(a) >= NumWords(b) THEN Zip(OrWord, a, b) ELSE Zip(OrWord, b, a)

BitXor(a, b) == IF NumWords(a) >= NumWords(b) THEN Zip(XorWord, a, b) ELSE Zip(XorWord, b, a)

BitAnd(a, b) == ZeroPast(Zip(AndWord, a, b), b)

Minus(a, b) == Zip(SubWord, a, b)

Not(a) == [k \in DOMAIN a |-> Bits \ a[k]]

\* A bug: one word too many.
StoreSizeOver(bits) == bits \div BITS_PER + 1

\* bits.div_ceil(size_of::<A>() * 8)
StoreSize(bits) == (bits + BITS_PER - 1) \div BITS_PER

WithCapacity(r) ==
  /\ \E bits \in 0 .. MaxLen * BITS_PER : Put(r, Zero(StoreSize(bits)))
  /\ Answer("with_capacity", {})

\* from_boxed_slice takes any words, of any number.
BoxedStores == UNION {Words(n) : n \in 0 .. MaxLen}

\* |= &= -= ^= are the methods of the slice.
BoxAssign(r, s) == InPlace(r, s)

\* | & - ^
BoxOperator(q, r, s) ==
  \/ Put(q, BitOr(store[r], store[s])) /\ Answer("|", {})
  \/ Put(q, BitAnd(store[r], store[s])) /\ Answer("&", {})
  \/ Put(q, Minus(store[r], store[s])) /\ Answer("-", {})
  \/ Put(q, BitXor(store[r], store[s])) /\ Answer("^", {})

BoxComplement(q, r) == Put(q, Not(store[r])) /\ Answer("!", {})

\* The words at k of the sets of a batch, together.
OrAt(batch, k) ==
  UNION {store[batch[i]][k] : i \in {j \in DOMAIN batch : k \in DOMAIN store[batch[j]]}}

\* FromIterator<Self> folds with |, which keeps the longest; Extend<Self> zips
\* each set of the batch into self.
BoxCollect(q, batch) ==
  /\ Put(q, [k \in UNION {DOMAIN store[batch[i]] : i \in DOMAIN batch} |-> OrAt(batch, k)])
  /\ Answer("collect", {})

BoxExtend(r, batch) ==
  /\ Put(r, [k \in DOMAIN store[r] |-> store[r][k] \cup OrAt(batch, k)])
  /\ Answer("extend", {})

=============================================================================
