------------------------- MODULE WordOpIter_proofs -------------------------
(***************************************************************************)
(* Proofs about WordOpIter: the items of the set operations are explained  *)
(* by the two slices, come in order, and keep to the size_hint, for any    *)
(* lengths, word width and writes.                                         *)
(***************************************************************************)
EXTENDS WordOpIter, FiniteSetTheorems, TLAPS

\* The word an item lies in, and its bit there; the words taken so far.
Word(x) == x \div BITS_PER
Bit(x) == x % BITS_PER
Taken == prefix + tail

-----------------------------------------------------------------------------
\* Items, words and bits.

LEMMA SplitItem ==
  ASSUME NEW x \in Nat
  PROVE  Word(x) \in Nat /\ Bit(x) \in Bits /\ x = Word(x) * BITS_PER + Bit(x)
  BY BitsAssumption DEF Word, Bit, Bits

LEMMA JoinItem ==
  ASSUME NEW k \in Nat, NEW b \in Bits
  PROVE  k * BITS_PER + b \in Nat /\ Word(k * BITS_PER + b) = k /\ Bit(k * BITS_PER + b) = b
  BY BitsAssumption DEF Word, Bit, Bits

LEMMA ItemBound ==
  ASSUME NEW x \in Nat, NEW n \in Nat
  PROVE  x < n * BITS_PER <=> Word(x) < n
  BY BitsAssumption, SplitItem DEF Word, Bit, Bits

\* Items are ordered by word, then by bit.
LEMMA ItemOrder ==
  ASSUME NEW x \in Nat, NEW y \in Nat,
         Word(x) < Word(y) \/ (Word(x) = Word(y) /\ Bit(x) < Bit(y))
  PROVE  x < y
<1>1. /\ Word(x) \in Nat /\ Bit(x) \in Bits /\ x = Word(x) * BITS_PER + Bit(x)
      /\ Word(y) \in Nat /\ Bit(y) \in Bits /\ y = Word(y) * BITS_PER + Bit(y)
  BY SplitItem
<1>2. CASE Word(x) < Word(y)
  <2>1. x < Word(y) * BITS_PER
    BY <1>1, <1>2, ItemBound
  <2> QED BY <1>1, <2>1, BitsAssumption DEF Bits
<1>3. CASE Word(x) = Word(y) /\ Bit(x) < Bit(y)
  <2> DEFINE p == Word(y) * BITS_PER
  <2>1. p \in Nat /\ x = p + Bit(x) /\ y = p + Bit(y)
    BY <1>1, <1>3, BitsAssumption
  <2> HIDE DEF p
  <2> QED BY <1>1, <1>3, <2>1 DEF Bits
<1> QED BY <1>2, <1>3

LEMMA FiniteBelow ==
  ASSUME NEW m \in Int, NEW S \in SUBSET (0 .. m - 1)
  PROVE  IsFiniteSet(S) /\ Cardinality(S) \in Nat
<1>1. IsFiniteSet(0 .. m - 1)
  BY FS_Interval
<1> QED BY <1>1, FS_Subset, FS_CardinalityType

LEMMA BitsFinite ==
  \A b \in SUBSET Bits : /\ IsFiniteSet(b) /\ Cardinality(b) \in Nat
                         /\ Cardinality(b) <= BITS_PER
<1>1. IsFiniteSet(Bits) /\ Cardinality(Bits) = BITS_PER
  BY BitsAssumption, FS_Interval DEF Bits
<1>2. \A b \in SUBSET Bits : IsFiniteSet(b) /\ Cardinality(b) <= Cardinality(Bits)
  BY <1>1, FS_Subset
<1>3. \A b \in SUBSET Bits : Cardinality(b) \in Nat
  BY <1>2, FS_CardinalityType
<1> QED BY <1>1, <1>2, <1>3

-----------------------------------------------------------------------------
\* The words an operation takes: pairs of the shared prefix, then the rest of the
\* longer side, as many as Length.
LEMMA Lengths ==
  ASSUME shape \in Shapes
  PROVE  /\ shape.a \in Nat /\ shape.b \in Nat /\ shape.atomic \in BOOLEAN
         /\ Length \in Nat /\ PrefixLen \in Nat /\ TailLen \in Nat
         /\ PrefixLen + TailLen = Length
         /\ PrefixLen <= shape.a /\ PrefixLen <= shape.b
         /\ TailSide \in Slots
         /\ TailSide = "a" /\ TailLen > 0 => Length <= shape.a /\ PrefixLen = shape.b
         /\ TailSide = "b" /\ TailLen > 0 => Length <= shape.b /\ PrefixLen = shape.a
<1>1. shape \in ShapeType
  BY ShapesAssumption
<1> QED BY <1>1 DEF ShapeType, Length, PrefixLen, TailLen, TailSide, Smaller, Larger, Slots

\* A word is combined bit by bit.
LEMMA CombineIff ==
  ASSUME NEW u, NEW v, NEW x
  PROVE  x \in Combine(u, v) <=> InOp(x \in u, x \in v)
  BY DEF Combine, InOp

\* A word one slice does not have counts as one without bits.
LEMMA CombineEmpty ==
  ASSUME NEW u, NEW x
  PROVE  /\ x \in Combine(u, {}) <=> InOp(x \in u, FALSE)
         /\ x \in Combine({}, u) <=> InOp(FALSE, x \in u)
<1>1. ~ (x \in {})
  OBVIOUS
<1>2. (x \in {}) = FALSE
  BY <1>1
<1>3. x \in Combine(u, {}) <=> InOp(x \in u, x \in {})
  BY CombineIff, Zenon
<1>4. x \in Combine({}, u) <=> InOp(x \in {}, x \in u)
  BY CombineIff, Zenon
<1> QED BY <1>2, <1>3, <1>4, Zenon

\* No operation makes an item of a bit that neither side has.
LEMMA InOpFalse == ~ InOp(FALSE, FALSE)
  BY DEF InOp

\* The word the iterator gets at k from the words as they are.
At(k) == IF k < PrefixLen THEN PairAt(k) ELSE TailAt(k)

\* The bits ahead of it, from word t on.
Rest(t) == {p \in (t .. Length - 1) \X Bits : p[2] \in At(p[1])}

-----------------------------------------------------------------------------
\* The inductive invariant.  Of the words taken every bit is explained, as an item
\* or as one left in the live word.

\* The words of the two slices, and what they have held and keep holding.
Arrays == [a: [0 .. shape.a - 1 -> SUBSET Bits], b: [0 .. shape.b - 1 -> SUBSET Bits]]
Shape ==
  /\ words \in Arrays /\ stable \in Arrays /\ ever \in Arrays
  /\ \A s \in Slots : \A k \in DOMAIN words[s] :
       stable[s][k] \subseteq words[s][k] /\ words[s][k] \subseteq ever[s][k]
  /\ ~ shape.atomic => stable = words /\ ever = words

\* The word of a that is held while b's is loaded.
Held ==
  loaded # NoWord =>
    /\ mode \in {"next", "fold"}
    /\ stable["a"][prefix] \subseteq loaded /\ loaded \subseteq ever["a"][prefix]

\* A finished iterator has taken every word.
Finished ==
  Over => current = {} /\ loaded = NoWord /\ prefix = PrefixLen /\ tail = TailLen

Explains(k, x, in) ==
  \E inA, inB \in BOOLEAN :
    /\ May("a", k, x, inA) /\ May("b", k, x, inB)
    /\ in <=> InOp(inA, inB)
WordExplained(k, word) == \A x \in Bits : Explains(k, x, x \in word)
LiveBit(k, x) == k = Taken - 1 /\ x \in current
Behind ==
  /\ current # {} => Taken > 0
  /\ mode # "panicked" => \A k \in 0 .. Taken - 1, x \in Bits :
       Explains(k, x, k * BITS_PER + x \in out \/ LiveBit(k, x))
  /\ \A y \in out : y \in Nat /\ Word(y) < Taken
  /\ \A y \in out : Word(y) = Taken - 1 => \A x \in current : Bit(y) < x

\* No item was handed out twice.
Counted == handed = Cardinality(out)

\* A size_hint, once given, keeps to the items to come.
Hinted ==
  hint # NoHint =>
    /\ hint.low \in Nat /\ hint.high \in Nat /\ hint.since \in Nat
    /\ ~ shape.atomic /\ mode # "panicked" =>
         /\ hint.low = Cardinality(out) - hint.since + Cardinality(current) + UnseenOnes
         /\ hint.high = hint.low
    /\ shape.atomic /\ mode # "panicked" =>
         /\ hint.low <= Cardinality(out) - hint.since + Cardinality(current)
         /\ Cardinality(out) - hint.since + Cardinality(current)
            + UnseenWords * BITS_PER <= hint.high

Inv == TypeOK /\ Shape /\ Held /\ Finished /\ Behind /\ Counted /\ Hinted

-----------------------------------------------------------------------------
LEMMA Sizes ==
  ASSUME Inv
  PROVE  /\ shape \in Shapes /\ Taken \in 0 .. Length
         /\ prefix \in Nat /\ tail \in Nat
         /\ prefix < PrefixLen => tail = 0 /\ Taken = prefix
         /\ IsFiniteSet(out) /\ Cardinality(out) \in Nat
         /\ current \in SUBSET Bits
         /\ IsFiniteSet(current) /\ Cardinality(current) \in Nat
         /\ Cardinality(current) <= BITS_PER
         /\ UnseenWords \in Nat /\ UnseenWords = Length - Taken
<1>1. /\ shape \in Shapes /\ prefix \in 0 .. PrefixLen /\ tail \in 0 .. TailLen
      /\ tail > 0 => prefix = PrefixLen
      /\ current \in SUBSET Bits /\ out \subseteq 0 .. Length * BITS_PER - 1
  BY DEF Inv, TypeOK
<1>2. Length \in Nat /\ PrefixLen \in Nat /\ TailLen \in Nat /\ PrefixLen + TailLen = Length
  BY <1>1, Lengths
<1>3. IsFiniteSet(out) /\ Cardinality(out) \in Nat
  <2> DEFINE m == Length * BITS_PER
  <2>1. m \in Int /\ out \in SUBSET (0 .. m - 1)
    BY <1>1, <1>2, BitsAssumption
  <2> HIDE DEF m
  <2> QED BY <2>1, FiniteBelow
<1>4. /\ Taken \in 0 .. Length /\ prefix \in Nat /\ tail \in Nat
      /\ prefix < PrefixLen => tail = 0 /\ Taken = prefix
      /\ UnseenWords \in Nat /\ UnseenWords = Length - Taken
  BY <1>1, <1>2 DEF Taken, UnseenWords
<1> QED BY <1>1, <1>3, <1>4, BitsFinite

\* The words a pair or a tail word is made of exist, and so does the result.
LEMMA WordsThere ==
  ASSUME Inv
  PROVE  /\ \A k \in 0 .. PrefixLen - 1 :
              /\ k \in DOMAIN words["a"] /\ k \in DOMAIN words["b"]
              /\ words["a"][k] \in SUBSET Bits /\ words["b"][k] \in SUBSET Bits
         /\ \A k \in PrefixLen .. Length - 1 :
              /\ k \in DOMAIN words[TailSide] /\ words[TailSide][k] \in SUBSET Bits
              /\ TailSide = "a" => k \notin DOMAIN words["b"]
              /\ TailSide = "b" => k \notin DOMAIN words["a"]
         /\ \A k \in 0 .. Length - 1 : At(k) \in SUBSET Bits
<1>1. /\ shape.a \in Nat /\ shape.b \in Nat
      /\ Length \in Nat /\ PrefixLen \in Nat /\ TailLen \in Nat
      /\ PrefixLen + TailLen = Length
      /\ PrefixLen <= shape.a /\ PrefixLen <= shape.b
      /\ TailSide \in Slots
      /\ TailSide = "a" /\ TailLen > 0 => Length <= shape.a /\ PrefixLen = shape.b
      /\ TailSide = "b" /\ TailLen > 0 => Length <= shape.b /\ PrefixLen = shape.a
  BY Lengths DEF Inv, TypeOK
<1>2. /\ words["a"] \in [0 .. shape.a - 1 -> SUBSET Bits]
      /\ words["b"] \in [0 .. shape.b - 1 -> SUBSET Bits]
  BY DEF Inv, Shape, Arrays
<1>3. \A k \in 0 .. PrefixLen - 1 :
        /\ k \in DOMAIN words["a"] /\ k \in DOMAIN words["b"]
        /\ words["a"][k] \in SUBSET Bits /\ words["b"][k] \in SUBSET Bits
  BY <1>1, <1>2
<1>4. ASSUME NEW k \in PrefixLen .. Length - 1
      PROVE  /\ k \in DOMAIN words[TailSide] /\ words[TailSide][k] \in SUBSET Bits
             /\ TailSide = "a" => k \notin DOMAIN words["b"]
             /\ TailSide = "b" => k \notin DOMAIN words["a"]
  <2>1. TailLen > 0
    BY <1>1
  <2>2. CASE TailSide = "a"
    <3>1. k \in 0 .. shape.a - 1 /\ k \notin 0 .. shape.b - 1
      BY <1>1, <2>1, <2>2
    <3> QED BY <1>2, <2>2, <3>1
  <2>3. CASE TailSide = "b"
    <3>1. k \in 0 .. shape.b - 1 /\ k \notin 0 .. shape.a - 1
      BY <1>1, <2>1, <2>3
    <3> QED BY <1>2, <2>3, <3>1
  <2> QED BY <1>1, <2>2, <2>3 DEF Slots
<1>5. \A u, v \in SUBSET Bits : Combine(u, v) \in SUBSET Bits
  BY DEF Combine
<1>6. ASSUME NEW k \in 0 .. Length - 1 PROVE At(k) \in SUBSET Bits
  <2>1. CASE k < PrefixLen
    BY <1>1, <1>3, <1>5, <2>1 DEF At, PairAt
  <2>2. CASE ~ (k < PrefixLen)
    <3>1. words[TailSide][k] \in SUBSET Bits /\ {} \in SUBSET Bits
      BY <1>1, <1>4, <2>2
    <3> QED BY <1>5, <2>2, <3>1 DEF At, TailAt, TailOp
  <2> QED BY <2>1, <2>2
<1> QED BY <1>3, <1>4, <1>6

\* The bits ahead are those of the next word and of the words after it.
LEMMA RestCard ==
  ASSUME Inv, NEW t \in 0 .. Length
  PROVE  /\ IsFiniteSet(Rest(t)) /\ Cardinality(Rest(t)) \in Nat
         /\ t < Length => Cardinality(Rest(t)) = Cardinality(At(t)) + Cardinality(Rest(t + 1))
<1>1. Length \in Nat /\ \A k \in 0 .. Length - 1 : At(k) \in SUBSET Bits
  BY Lengths, WordsThere DEF Inv, TypeOK
<1>2. \A u \in 0 .. Length : IsFiniteSet(Rest(u)) /\ Cardinality(Rest(u)) \in Nat
  <2>1. IsFiniteSet(0 .. Length - 1) /\ IsFiniteSet(Bits)
    BY <1>1, FS_Interval, BitsFinite
  <2>2. IsFiniteSet((0 .. Length - 1) \X Bits)
    BY <2>1, FS_Product
  <2>3. \A u \in 0 .. Length : Rest(u) \in SUBSET ((0 .. Length - 1) \X Bits)
    BY <1>1 DEF Rest
  <2> QED BY <2>2, <2>3, FS_Subset, FS_CardinalityType
<1>3. ASSUME t < Length
      PROVE  Cardinality(Rest(t)) = Cardinality(At(t)) + Cardinality(Rest(t + 1))
  <2> DEFINE row == {t} \X At(t)
  <2>1. t \in 0 .. Length - 1 /\ t + 1 \in 0 .. Length
    BY <1>1, <1>3
  <2>2. IsFiniteSet(At(t)) /\ Cardinality(At(t)) \in Nat /\ At(t) \in SUBSET Bits
    BY <1>1, <2>1, BitsFinite
  <2>3. IsFiniteSet(row) /\ Cardinality(row) = Cardinality(At(t))
    <3>1. IsFiniteSet({t}) /\ Cardinality({t}) = 1
      BY FS_Singleton
    <3> QED BY <2>2, <3>1, FS_Product
  <2>4. Rest(t) = row \cup Rest(t + 1)
    <3>1. ASSUME NEW k, NEW x
          PROVE  /\ <<k, x>> \in Rest(t) <=> k \in t .. Length - 1 /\ x \in Bits /\ x \in At(k)
                 /\ <<k, x>> \in Rest(t + 1) <=>
                      k \in t + 1 .. Length - 1 /\ x \in Bits /\ x \in At(k)
                 /\ <<k, x>> \in row <=> k = t /\ x \in At(k)
      BY DEF Rest
    <3>2. \A k : k \in t .. Length - 1 <=> k = t \/ k \in t + 1 .. Length - 1
      BY <1>1, <2>1
    <3>3. ASSUME NEW p \in Rest(t) PROVE p \in row \cup Rest(t + 1)
      <4>1. PICK k, x : p = <<k, x>>
        BY DEF Rest
      <4> QED BY <3>1, <3>2, <3>3, <4>1
    <3>4. ASSUME NEW p \in row \cup Rest(t + 1) PROVE p \in Rest(t)
      <4>1. PICK k, x : p = <<k, x>>
        BY DEF Rest
      <4> QED BY <2>2, <3>1, <3>2, <3>4, <4>1
    <3> QED BY <3>3, <3>4
  <2>5. row \cap Rest(t + 1) = {}
    BY <1>1, <2>1 DEF Rest
  <2>6. Cardinality(row \cap Rest(t + 1)) = 0
    BY <2>5, FS_EmptySet
  <2>7. /\ IsFiniteSet(Rest(t + 1)) /\ Cardinality(Rest(t + 1)) \in Nat
    BY <1>2, <2>1
  <2>8. Cardinality(Rest(t)) =
          Cardinality(row) + Cardinality(Rest(t + 1)) - Cardinality(row \cap Rest(t + 1))
    BY <2>3, <2>4, <2>7, FS_Union
  <2> QED BY <2>2, <2>3, <2>6, <2>7, <2>8
<1> QED BY <1>2, <1>3

\* remaining_len counts them, from any place: p pairs and q tail words taken.
UnseenAt(p, q) ==
  LET pairs == {r \in (p .. PrefixLen - 1) \X Bits : r[2] \in PairAt(r[1])}
      tails == {r \in (PrefixLen + q .. PrefixLen + TailLen - 1) \X Bits :
                  r[2] \in TailAt(r[1])}
  IN Cardinality(pairs) + Cardinality(tails)

LEMMA UnseenCount ==
  ASSUME Inv, NEW p \in 0 .. PrefixLen, NEW q \in 0 .. TailLen, q > 0 => p = PrefixLen
  PROVE  UnseenAt(p, q) = Cardinality(Rest(p + q)) /\ UnseenAt(p, q) \in Nat
<1> DEFINE pairs == {r \in (p .. PrefixLen - 1) \X Bits : r[2] \in PairAt(r[1])}
           tails == {r \in (PrefixLen + q .. PrefixLen + TailLen - 1) \X Bits :
                       r[2] \in TailAt(r[1])}
           t == p + q
<1>1. /\ Length \in Nat /\ PrefixLen \in Nat /\ TailLen \in Nat
      /\ PrefixLen + TailLen = Length
  BY Lengths DEF Inv, TypeOK
<1>2. /\ t \in 0 .. Length
      /\ IsFiniteSet(Rest(t)) /\ Cardinality(Rest(t)) \in Nat
  <2>1. t \in 0 .. Length
    BY <1>1
  <2> QED BY <2>1, RestCard
<1>3. Rest(t) = pairs \cup tails
  <2>1. ASSUME NEW k, NEW x
        PROVE  /\ <<k, x>> \in Rest(t) <=> k \in t .. Length - 1 /\ x \in Bits /\ x \in At(k)
               /\ <<k, x>> \in pairs <=>
                    k \in p .. PrefixLen - 1 /\ x \in Bits /\ x \in PairAt(k)
               /\ <<k, x>> \in tails <=>
                    k \in PrefixLen + q .. PrefixLen + TailLen - 1 /\ x \in Bits /\ x \in TailAt(k)
    BY DEF Rest
  <2>2. ASSUME NEW k
        PROVE  /\ k \in t .. Length - 1 <=>
                    k \in p .. PrefixLen - 1 \/ k \in PrefixLen + q .. PrefixLen + TailLen - 1
               /\ k \in p .. PrefixLen - 1 => k < PrefixLen
               /\ k \in PrefixLen + q .. PrefixLen + TailLen - 1 => ~ (k < PrefixLen)
    BY <1>1
  <2>3. ASSUME NEW k, NEW x
        PROVE  <<k, x>> \in Rest(t) <=> <<k, x>> \in pairs \cup tails
    BY <2>1, <2>2 DEF At
  <2>4. ASSUME NEW r \in Rest(t) PROVE r \in pairs \cup tails
    <3>1. PICK k, x : r = <<k, x>>
      BY DEF Rest
    <3> QED BY <2>3, <2>4, <3>1
  <2>5. ASSUME NEW r \in pairs \cup tails PROVE r \in Rest(t)
    <3>1. PICK k, x : r = <<k, x>>
      OBVIOUS
    <3> QED BY <2>3, <2>5, <3>1
  <2> QED BY <2>4, <2>5
<1>4. pairs \cap tails = {}
  BY <1>1
<1> HIDE DEF pairs, tails
<1>5. IsFiniteSet(pairs) /\ IsFiniteSet(tails)
  BY <1>2, <1>3, FS_Subset
<1>6. Cardinality(pairs) \in Nat /\ Cardinality(tails) \in Nat
      /\ Cardinality(pairs \cap tails) = 0
  BY <1>4, <1>5, FS_CardinalityType, FS_EmptySet
<1>7. Cardinality(Rest(t)) =
        Cardinality(pairs) + Cardinality(tails) - Cardinality(pairs \cap tails)
  BY <1>3, <1>5, FS_Union
<1>8. UnseenAt(p, q) = Cardinality(pairs) + Cardinality(tails)
  BY DEF UnseenAt, pairs, tails
<1> QED BY <1>2, <1>6, <1>7, <1>8

LEMMA HintCount ==
  ASSUME Inv
  PROVE  UnseenOnes = Cardinality(Rest(Taken)) /\ UnseenOnes \in Nat
<1>1. UnseenOnes = UnseenAt(prefix, tail)
  BY DEF UnseenOnes, UnseenAt
<1> QED BY <1>1, UnseenCount DEF Inv, TypeOK, Taken

\* A bit of the live word is a new item, past all that is out.
LEMMA FreshItem ==
  ASSUME Inv, NEW x \in current
  PROVE  /\ Item(x) \in Nat /\ Word(Item(x)) = Taken - 1 /\ Bit(Item(x)) = x
         /\ Item(x) = (Taken - 1) * BITS_PER + x
         /\ \A y \in out : y < Item(x)
         /\ Item(x) \in 0 .. Length * BITS_PER - 1
<1>1. /\ Taken \in 0 .. Length /\ Length \in Nat /\ prefix \in Nat /\ tail \in Nat
      /\ x \in Bits /\ base.current = (Taken - 1) * BITS_PER
  BY Sizes, Lengths DEF Inv, TypeOK, Taken
<1>2. Taken - 1 \in Nat /\ Taken - 1 < Length
  BY <1>1 DEF Inv, Behind
<1> DEFINE k == Taken - 1
           item == k * BITS_PER + x
<1>3. Item(x) = item /\ item \in Nat /\ Word(item) = k /\ Bit(item) = x
  BY <1>1, <1>2, JoinItem DEF Item
<1>4. item \in 0 .. Length * BITS_PER - 1
  <2>1. k < Length /\ Length * BITS_PER \in Nat
    BY <1>1, <1>2, BitsAssumption
  <2> HIDE DEF k, item
  <2>2. item < Length * BITS_PER
    BY <1>1, <1>3, <2>1, ItemBound
  <2> QED BY <1>3, <2>1, <2>2
<1>5. ASSUME NEW y \in out PROVE y < item
  <2>1. y \in Nat /\ Word(y) \in Nat /\ Word(y) < k + 1
        /\ (Word(y) = k => Bit(y) < x)
    BY <1>1, <1>2, SplitItem DEF Inv, Behind
  <2>2. k \in Nat
    BY <1>2
  <2> HIDE DEF k, item
  <2>3. Word(y) < Word(item) \/ (Word(y) = Word(item) /\ Bit(y) < Bit(item))
    BY <1>3, <2>1, <2>2
  <2> QED BY <1>3, <2>1, <2>3, ItemOrder
<1> QED BY <1>3, <1>4, <1>5

\* A bit of a word, loaded from one slice when the other has no such word, or from
\* each at some time, is explained by what the slices held.
LEMMA ExplainsIntro ==
  ASSUME NEW k, NEW x, NEW inA \in BOOLEAN, NEW inB \in BOOLEAN, NEW in \in BOOLEAN,
         May("a", k, x, inA), May("b", k, x, inB), in <=> InOp(inA, inB)
  PROVE  Explains(k, x, in)
  BY Zenon DEF Explains

\* What a slice may have held of a bit it has held now.
LEMMA MayNow ==
  ASSUME Shape, NEW s \in Slots, NEW k, NEW x
  PROVE  /\ k \notin DOMAIN words[s] => May(s, k, x, FALSE)
         /\ k \in DOMAIN words[s] => May(s, k, x, x \in words[s][k])
  BY DEF Shape, May

-----------------------------------------------------------------------------
\* Each step keeps the invariant.

LEMMA InitInv == Init => Inv
<1> SUFFICES ASSUME Init PROVE Inv
  OBVIOUS
<1>1. PICK x \in [0 .. shape.a - 1 -> SUBSET Bits], y \in [0 .. shape.b - 1 -> SUBSET Bits] :
        words = [s \in Slots |-> IF s = "a" THEN x ELSE y]
  BY DEF Init
<1>2. words \in Arrays
  BY <1>1 DEF Arrays, Slots
<1>3. /\ shape \in Shapes /\ prefix = 0 /\ tail = 0 /\ loaded = NoWord /\ current = {}
      /\ base = [current |-> 0, next |-> 0] /\ out = {} /\ handed = 0 /\ mode = "next"
      /\ hint = NoHint /\ writes = 0 /\ stable = words /\ ever = words
  BY DEF Init
<1>4. TypeOK
  BY <1>3, Lengths, BitsAssumption, WritesAssumption DEF TypeOK
<1>5. Shape /\ Held /\ Finished /\ Behind /\ Hinted
  BY <1>2, <1>3 DEF Shape, Held, Finished, Over, Behind, Taken, Hinted
<1>6. Counted
  BY <1>3, FS_EmptySet DEF Counted
<1> QED BY <1>4, <1>5, <1>6 DEF Inv

LEMMA YieldInv ==
  ASSUME Inv, Yield
  PROVE  Inv'
<1>1. PICK x \in current : /\ \A y \in current : x <= y
                           /\ out' = out \cup {Item(x)} /\ handed' = handed + 1
                           /\ current' = current \ {x}
  BY DEF Yield, Lowest, HandOut
<1>2. /\ UNCHANGED <<shape, words, prefix, tail, loaded, base, mode, hint, writes, stable, ever>>
      /\ UNCHANGED <<Length, PrefixLen, TailLen, Taken>> /\ loaded = NoWord
      /\ mode \in {"next", "fold"}
  BY DEF Yield, Going, Histories, Length, PrefixLen, TailLen, TailSide, Taken
<1>3. /\ Item(x) \in Nat /\ Word(Item(x)) = Taken - 1 /\ Bit(Item(x)) = x
      /\ Item(x) = (Taken - 1) * BITS_PER + x /\ Item(x) \in 0 .. Length * BITS_PER - 1
      /\ \A y \in out : y < Item(x)
  BY FreshItem
<1>4. /\ Taken \in Nat /\ current \in SUBSET Bits /\ Taken > 0
      /\ Cardinality(out) \in Nat /\ IsFiniteSet(out) /\ IsFiniteSet(current)
      /\ Cardinality(current) \in Nat
  BY Sizes, Lengths DEF Inv, TypeOK, Behind
<1>5. Item(x) \notin out
  BY <1>3
<1>6. TypeOK'
  BY <1>1, <1>2, <1>3 DEF Inv, TypeOK
<1>7. Shape' /\ Held' /\ Finished'
  BY <1>1, <1>2 DEF Inv, Shape, Arrays, Held, Finished, Over
<1>8. Behind'
  <2>1. ASSUME NEW k \in 0 .. Taken - 1, NEW z \in Bits
        PROVE  Explains(k, z, k * BITS_PER + z \in out' \/ LiveBit(k, z)')
    <3>1. k * BITS_PER + z \in Nat /\ Word(k * BITS_PER + z) = k /\ Bit(k * BITS_PER + z) = z
      BY JoinItem
    <3>2. k * BITS_PER + z = Item(x) <=> k = Taken - 1 /\ z = x
      BY <1>3, <3>1
    <3>3. (k * BITS_PER + z \in out' \/ LiveBit(k, z)') <=>
            (k * BITS_PER + z \in out \/ LiveBit(k, z))
      BY <1>1, <1>2, <3>2 DEF LiveBit
    <3> QED BY <1>2, <3>3 DEF Inv, Behind, Explains
  <2>2. \A k, z, in : Explains(k, z, in)' <=> Explains(k, z, in)
    BY <1>2 DEF Explains, May, InOp
  <2>3. \A y \in out' : y \in Nat /\ Word(y) < Taken
    BY <1>1, <1>3, <1>4 DEF Inv, Behind
  <2>4. \A y \in out' : Word(y) = Taken - 1 => \A z \in current' : Bit(y) < z
    <3>1. \A z \in current' : z \in current /\ x < z
      BY <1>1, <1>4 DEF Bits
    <3> QED BY <1>1, <1>3, <3>1 DEF Inv, Behind
  <2> QED BY <1>2, <1>4, <2>1, <2>2, <2>3, <2>4 DEF Behind
<1>9. Hinted'
  <2>1. Cardinality(out') = Cardinality(out) + 1 /\ Cardinality(current') = Cardinality(current) - 1
    BY <1>1, <1>4, <1>5, FS_AddElement, FS_RemoveElement
  <2>2. UnseenOnes' = UnseenOnes /\ UnseenWords' = UnseenWords
    BY <1>2 DEF UnseenOnes, UnseenWords, PairAt, TailAt, TailOp, TailSide, Combine
  <2>3. UnseenOnes \in Nat /\ UnseenWords * BITS_PER \in Nat
    BY HintCount, Sizes, BitsAssumption
  <2> QED BY <1>2, <1>4, <2>1, <2>2, <2>3 DEF Inv, Hinted
<1>10. Counted'
  BY <1>1, <1>4, <1>5, FS_AddElement DEF Inv, Counted
<1> QED BY <1>6, <1>7, <1>8, <1>9, <1>10 DEF Inv

LEMMA UnheldInv ==
  ASSUME Inv, Unheld
  PROVE  Inv'
<1>1. /\ current' \subseteq current /\ mode' = "panicked" /\ loaded = NoWord
      /\ UNCHANGED <<shape, words, prefix, tail, loaded, base, out, handed, hint, writes,
                     stable, ever>>
      /\ UNCHANGED <<Length, PrefixLen, TailLen, Taken>>
  BY DEF Unheld, Going, Items, Histories, Length, PrefixLen, TailLen, TailSide, Taken
<1>2. TypeOK'
  BY <1>1 DEF Inv, TypeOK
<1>3. Shape' /\ Held' /\ Finished' /\ Counted' /\ Hinted'
  BY <1>1 DEF Inv, Shape, Arrays, Held, Finished, Over, Counted, Hinted
<1>4. Behind'
  BY <1>1 DEF Inv, Behind
<1> QED BY <1>2, <1>3, <1>4 DEF Inv

LEMMA TakePrefixAInv ==
  ASSUME Inv, TakePrefixA
  PROVE  Inv'
<1>1. /\ current = {} /\ loaded = NoWord /\ prefix < PrefixLen /\ loaded' = words["a"][prefix]
      /\ UNCHANGED <<shape, words, prefix, tail, current, base, out, handed, mode, hint, writes,
                     stable, ever>>
      /\ UNCHANGED <<Length, PrefixLen, TailLen, Taken>> /\ mode \in {"next", "fold"}
  BY DEF TakePrefixA, Going, Items, Histories, Length, PrefixLen, TailLen, TailSide, Taken
<1>2. /\ prefix \in 0 .. PrefixLen - 1 /\ prefix \in DOMAIN words["a"]
      /\ words["a"][prefix] \in SUBSET Bits
  <2>1. prefix \in 0 .. PrefixLen - 1
    BY <1>1, Lengths DEF Inv, TypeOK
  <2> QED BY <2>1, WordsThere
<1>3. TypeOK'
  BY <1>1, <1>2 DEF Inv, TypeOK
<1>5. Shape' /\ Held' /\ Finished'
  BY <1>1, <1>2 DEF Inv, Shape, Arrays, Held, Finished, Over, Slots
<1>6. Behind' /\ Counted' /\ Hinted'
  BY <1>1 DEF Inv, Behind, Explains, May, InOp, LiveBit, Counted, Hinted, UnseenOnes, UnseenWords,
              PairAt, TailAt, TailOp, TailSide, Combine
<1> QED BY <1>3, <1>5, <1>6 DEF Inv

\* The next word becomes the live one.
Takes(word) ==
  /\ current = {} /\ SetCurrent(word)
  /\ prefix' \in 0 .. PrefixLen /\ tail' \in 0 .. TailLen
  /\ tail' > 0 => prefix' = PrefixLen
  /\ Taken' = Taken + 1 /\ loaded' = NoWord
  /\ UNCHANGED <<shape, words, out, handed, mode, hint, writes, stable, ever>>
  /\ mode \in {"next", "fold"}
  /\ WordExplained(Taken, word)
  /\ ~ shape.atomic => word = At(Taken)

LEMMA SumBound ==
  ASSUME NEW P \in Nat, NEW T \in Nat, NEW p \in 0 .. P, NEW t \in 0 .. T
  PROVE  p \in Nat /\ t \in Nat /\ p + t <= P + T
  OBVIOUS

LEMMA SetCurrentInv ==
  ASSUME Inv, NEW word \in SUBSET Bits, Takes(word)
  PROVE  Inv'
<1>0. /\ current = {} /\ SetCurrent(word)
      /\ prefix' \in 0 .. PrefixLen /\ tail' \in 0 .. TailLen
      /\ tail' > 0 => prefix' = PrefixLen
      /\ Taken' = Taken + 1 /\ loaded' = NoWord
      /\ UNCHANGED <<shape, words, out, handed, mode, hint, writes, stable, ever>>
      /\ mode \in {"next", "fold"}
      /\ WordExplained(Taken, word)
      /\ ~ shape.atomic => word = At(Taken)
  BY DEF Takes
<1>1. /\ UNCHANGED <<Length, PrefixLen, TailLen>>
      /\ current' = word /\ base' = [current |-> base.next, next |-> base.next + BITS_PER]
  BY <1>0 DEF Length, PrefixLen, TailLen, TailSide, SetCurrent
<1>2. /\ Taken \in 0 .. Length - 1 /\ Length \in Nat /\ Taken' \in 0 .. Length
      /\ PrefixLen + TailLen = Length /\ PrefixLen \in Nat /\ TailLen \in Nat
      /\ prefix' \in Nat /\ tail' \in Nat
  <2>1. Taken \in 0 .. Length
    BY Sizes
  <2>2. Length \in Nat /\ PrefixLen \in Nat /\ TailLen \in Nat /\ PrefixLen + TailLen = Length
    BY Lengths DEF Inv, TypeOK
  <2>3. Taken' = prefix' + tail'
    BY DEF Taken
  <2>4. prefix' \in Nat /\ tail' \in Nat /\ prefix' + tail' <= Length
    BY <1>0, <2>2, SumBound
  <2>5. Taken + 1 <= Length
    BY <1>0, <2>3, <2>4
  <2> QED BY <1>0, <2>1, <2>2, <2>3, <2>4, <2>5
<1>3. TypeOK'
  <2>1. base.next = Taken * BITS_PER /\ Taken' = prefix' + tail'
    BY <1>0 DEF Inv, TypeOK, Taken
  <2>2. (Taken + 1) * BITS_PER = Taken * BITS_PER + BITS_PER
    BY <1>2, BitsAssumption
  <2>3. base'.next = (prefix' + tail') * BITS_PER
        /\ base'.current = (prefix' + tail' - 1) * BITS_PER
    <3>1. base'.next = base.next + BITS_PER /\ base'.current = base.next
      BY <1>1
    <3>2. prefix' + tail' = Taken + 1
      BY <1>0, <2>1
    <3>3. prefix' + tail' - 1 = Taken
      <4>1. Taken \in Nat
        BY <1>2
      <4>2. prefix' \in Nat /\ tail' \in Nat
        BY <1>2
      <4>3. \A m, n, u \in Nat : m + n = u + 1 => m + n - 1 = u
        OBVIOUS
      <4> QED BY <3>2, <4>1, <4>2, <4>3, Zenon
    <3> QED BY <2>1, <2>2, <3>1, <3>2, <3>3
  <2> QED BY <1>0, <1>1, <2>3 DEF Inv, TypeOK
<1>4. Shape' /\ Held' /\ Finished'
  BY <1>0 DEF Inv, Shape, Arrays, Held, Finished, Over
<1>5. Behind'
  <2>1. \A k, z, in : Explains(k, z, in)' <=> Explains(k, z, in)
    BY <1>0 DEF Explains, May, InOp
  <2>2. \A y \in out : y \in Nat /\ Word(y) \in Nat /\ Word(y) < Taken
    BY SplitItem DEF Inv, Behind
  <2>3. ASSUME NEW k \in 0 .. Taken, NEW z \in Bits
        PROVE  Explains(k, z, k * BITS_PER + z \in out' \/ LiveBit(k, z)')
    <3>1. CASE k = Taken
      <4>1. k * BITS_PER + z \notin out
        BY <1>2, <2>2, <3>1, JoinItem
      <4>2. (k * BITS_PER + z \in out' \/ LiveBit(k, z)') <=> z \in word
        BY <1>0, <1>1, <1>2, <3>1, <4>1 DEF LiveBit
      <4> QED BY <1>0, <3>1, <4>2 DEF WordExplained, Explains
    <3>2. CASE k # Taken
      <4>1. k \in 0 .. Taken - 1
        BY <1>2, <3>2
      <4>2. (k * BITS_PER + z \in out' \/ LiveBit(k, z)') <=>
              (k * BITS_PER + z \in out \/ LiveBit(k, z))
        BY <1>0, <1>2, <4>1 DEF LiveBit
      <4> QED BY <1>0, <4>1, <4>2 DEF Inv, Behind, Explains
    <3> QED BY <3>1, <3>2
  <2>4. \A y \in out' : y \in Nat /\ Word(y) < Taken' /\ Word(y) # Taken' - 1
    BY <1>0, <1>2, <2>2
  <2> QED BY <1>0, <1>1, <1>2, <2>1, <2>3, <2>4 DEF Behind
<1>6. Hinted'
  <2>1. UnseenOnes' = UnseenAt(prefix', tail')
    BY <1>0 DEF UnseenOnes, UnseenAt, PrefixLen, TailLen, TailSide, Length,
                    PairAt, TailAt, TailOp, Combine
  <2>2. UnseenAt(prefix', tail') = Cardinality(Rest(Taken + 1)) /\ UnseenAt(prefix', tail') \in Nat
    BY <1>0, UnseenCount DEF Taken
  <2>3. UnseenOnes = Cardinality(Rest(Taken)) /\ UnseenOnes \in Nat
    BY HintCount
  <2>4. Cardinality(Rest(Taken)) = Cardinality(At(Taken)) + Cardinality(Rest(Taken + 1))
    BY <1>2, RestCard
  <2>5. /\ Cardinality(current) = 0 /\ Cardinality(out) \in Nat
        /\ Cardinality(word) \in Nat /\ Cardinality(word) <= BITS_PER
    BY <1>0, Sizes, BitsFinite, FS_EmptySet
  <2>6. Cardinality(current') = Cardinality(word)
    BY <1>1
  <2>7. UnseenWords = Length - Taken /\ UnseenWords' = Length - Taken - 1 /\ UnseenWords \in Nat
    BY <1>0, <1>1, <1>2, Sizes DEF UnseenWords, Taken
  <2>8. /\ UnseenWords' * BITS_PER = UnseenWords * BITS_PER - BITS_PER
        /\ UnseenWords * BITS_PER \in Nat
    BY <1>2, <2>7, BitsAssumption
  <2>9. CASE shape.atomic
    BY <1>0, <2>5, <2>6, <2>8, <2>9, BitsAssumption DEF Inv, Hinted
  <2>10. CASE ~ shape.atomic
    BY <1>0, <2>1, <2>2, <2>3, <2>4, <2>5, <2>6, <2>10 DEF Inv, Hinted
  <2> QED BY <2>9, <2>10
<1>7. Counted'
  BY <1>0 DEF Inv, Counted
<1> QED BY <1>3, <1>4, <1>5, <1>6, <1>7 DEF Inv

LEMMA TakePrefixBInv ==
  ASSUME Inv, TakePrefixB
  PROVE  Inv'
<1> DEFINE k == prefix
           word == Combine(loaded, words["b"][k])
<1>1. /\ loaded # NoWord /\ SetCurrent(word) /\ prefix' = k + 1 /\ loaded' = NoWord
      /\ UNCHANGED <<shape, words, tail, out, handed, mode, hint, writes, stable, ever>>
  BY DEF TakePrefixB, Items, Histories
<1>2. /\ loaded \in SUBSET Bits /\ current = {} /\ k < PrefixLen /\ mode \in {"next", "fold"}
      /\ stable["a"][k] \subseteq loaded /\ loaded \subseteq ever["a"][k]
  BY <1>1 DEF Inv, TypeOK, Held
<1>3. /\ k \in 0 .. PrefixLen - 1 /\ tail = 0 /\ Taken = k /\ PrefixLen \in Nat
      /\ TailLen \in Nat
  BY <1>2, Sizes, Lengths DEF Inv, TypeOK
<1>4. /\ k \in DOMAIN words["a"] /\ k \in DOMAIN words["b"]
      /\ words["a"][k] \in SUBSET Bits /\ words["b"][k] \in SUBSET Bits
  BY <1>3, WordsThere
<1>5. word \in SUBSET Bits
  BY <1>2, <1>4 DEF Combine
<1>6. ASSUME NEW x \in Bits PROVE Explains(k, x, x \in word)
  <2>1. May("a", k, x, x \in loaded)
    BY <1>2, <1>4 DEF May
  <2>2. May("b", k, x, x \in words["b"][k])
    BY <1>4, MayNow DEF Inv, Slots
  <2>3. x \in word <=> InOp(x \in loaded, x \in words["b"][k])
    BY CombineIff
  <2>4. /\ (x \in loaded) \in BOOLEAN /\ (x \in words["b"][k]) \in BOOLEAN
        /\ (x \in word) \in BOOLEAN
    OBVIOUS
  <2> HIDE DEF word
  <2> QED BY <2>1, <2>2, <2>3, <2>4, ExplainsIntro, Zenon
<1>7. ASSUME ~ shape.atomic PROVE word = At(k)
  <2>1. loaded = words["a"][k]
    BY <1>2, <1>7 DEF Inv, Shape
  <2> QED BY <1>2, <2>1 DEF At, PairAt
<1>8. Taken' = Taken + 1
  BY <1>1, <1>3 DEF Taken
<1>9. prefix' \in 0 .. PrefixLen /\ tail' \in 0 .. TailLen /\ ~ (tail' > 0)
  BY <1>1, <1>3
<1>10. WordExplained(k, word)
  BY <1>6 DEF WordExplained
<1> HIDE DEF word
<1>11. Takes(word)
  BY <1>1, <1>2, <1>3, <1>7, <1>8, <1>9, <1>10 DEF Takes
<1> QED BY <1>5, <1>11, SetCurrentInv

LEMMA TakeTailInv ==
  ASSUME Inv, TakeTail
  PROVE  Inv'
<1> DEFINE k == PrefixLen + tail
           word == TailAt(k)
<1>1. /\ current = {} /\ loaded = NoWord /\ prefix = PrefixLen /\ tail < TailLen
      /\ SetCurrent(word) /\ tail' = tail + 1 /\ loaded' = NoWord /\ prefix' = prefix
      /\ mode \in {"next", "fold"}
      /\ UNCHANGED <<shape, words, out, handed, mode, hint, writes, stable, ever>>
  BY DEF TakeTail, Going, Items, Histories
<1>2. /\ PrefixLen \in Nat /\ TailLen \in Nat /\ PrefixLen + TailLen = Length
      /\ tail \in 0 .. TailLen - 1 /\ Taken = k /\ TailSide \in Slots
  BY <1>1, Lengths DEF Inv, TypeOK, Taken
<1>3. mode \in {"next", "fold"}
  BY <1>1
<1>4. k \in PrefixLen .. Length - 1 /\ ~ (k < PrefixLen) /\ k \in 0 .. Length - 1
  BY <1>2
<1>5. /\ k \in DOMAIN words[TailSide]
      /\ TailSide = "a" => k \notin DOMAIN words["b"]
      /\ TailSide = "b" => k \notin DOMAIN words["a"]
  BY <1>4, WordsThere
<1>6. word = At(k) /\ word \in SUBSET Bits
  BY <1>4, WordsThere DEF At
<1>7. ASSUME NEW x \in Bits PROVE Explains(k, x, x \in word)
  <2> DEFINE tw == words[TailSide][k]
  <2>1. May(TailSide, k, x, x \in tw)
    BY <1>2, <1>5, MayNow DEF Inv
  <2>2. CASE TailSide = "a"
    <3>1. May("b", k, x, FALSE)
      BY <1>5, <2>2 DEF May
    <3>2. x \in word <=> InOp(x \in tw, FALSE)
      <4>1. word = Combine(tw, {})
        BY <2>2 DEF TailAt, TailOp
      <4>2. x \in Combine(tw, {}) <=> InOp(x \in tw, FALSE)
        BY CombineEmpty
      <4> QED BY <4>1, <4>2
    <3>3. (x \in tw) \in BOOLEAN /\ (x \in word) \in BOOLEAN
      OBVIOUS
    <3> HIDE DEF tw, word
    <3> QED BY <2>1, <2>2, <3>1, <3>2, <3>3, ExplainsIntro, Zenon
  <2>3. CASE TailSide = "b"
    <3>1. May("a", k, x, FALSE)
      BY <1>5, <2>3 DEF May
    <3>2. x \in word <=> InOp(FALSE, x \in tw)
      <4>1. word = Combine({}, tw)
        BY <2>3 DEF TailAt, TailOp
      <4>2. x \in Combine({}, tw) <=> InOp(FALSE, x \in tw)
        BY CombineEmpty
      <4> QED BY <4>1, <4>2
    <3>3. (x \in tw) \in BOOLEAN /\ (x \in word) \in BOOLEAN
      OBVIOUS
    <3> HIDE DEF tw, word
    <3> QED BY <2>1, <2>3, <3>1, <3>2, <3>3, ExplainsIntro, Zenon
  <2> QED BY <1>2, <2>2, <2>3 DEF Slots
<1>8. Taken' = Taken + 1
  BY <1>1, <1>2 DEF Taken
<1>9. prefix' \in 0 .. PrefixLen /\ tail' \in 0 .. TailLen /\ prefix' = PrefixLen
  BY <1>1, <1>2
<1>10. WordExplained(k, word)
  BY <1>7 DEF WordExplained
<1> HIDE DEF word
<1>11. Takes(word)
  BY <1>1, <1>2, <1>3, <1>6, <1>8, <1>9, <1>10 DEF Takes
<1> QED BY <1>6, <1>11, SetCurrentInv

LEMMA NoneInv ==
  ASSUME Inv, None
  PROVE  Inv'
<1>1. /\ current = {} /\ loaded = NoWord /\ prefix = PrefixLen /\ tail = TailLen
      /\ mode' \in {"done", "folded"} /\ mode # "panicked"
      /\ UNCHANGED <<shape, words, prefix, tail, loaded, current, base, out, handed, hint,
                     writes, stable, ever>>
      /\ UNCHANGED <<Length, PrefixLen, TailLen, Taken>>
  BY DEF None, Items, Histories, Length, PrefixLen, TailLen, TailSide, Taken
<1>2. TypeOK' /\ Shape' /\ Held' /\ Finished'
  BY <1>1 DEF Inv, TypeOK, Shape, Arrays, Held, Finished, Over
<1>3. Behind' /\ Counted' /\ Hinted'
  BY <1>1 DEF Inv, Behind, Explains, May, InOp, LiveBit, Counted, Hinted, UnseenOnes, UnseenWords,
              PairAt, TailAt, TailOp, TailSide, Combine
<1> QED BY <1>2, <1>3 DEF Inv

LEMMA FoldInv ==
  ASSUME Inv, Fold
  PROVE  Inv'
<1>1. /\ mode = "next" /\ loaded = NoWord /\ mode' = "fold"
      /\ UNCHANGED <<shape, words, prefix, tail, loaded, current, base, out, handed, hint,
                     writes, stable, ever>>
      /\ UNCHANGED <<Length, PrefixLen, TailLen, Taken>>
  BY DEF Fold, Items, Histories, Length, PrefixLen, TailLen, TailSide, Taken
<1>2. TypeOK' /\ Shape' /\ Held' /\ Finished'
  BY <1>1 DEF Inv, TypeOK, Shape, Arrays, Held, Finished, Over
<1>3. Behind' /\ Counted' /\ Hinted'
  BY <1>1 DEF Inv, Behind, Explains, May, InOp, LiveBit, Counted, Hinted, UnseenOnes, UnseenWords,
              PairAt, TailAt, TailOp, TailSide, Combine
<1> QED BY <1>2, <1>3 DEF Inv

LEMMA SizeHintInv ==
  ASSUME Inv, SizeHint
  PROVE  Inv'
<1> DEFINE live == Cardinality(current)
<1>1. /\ hint' = [low |-> LenHint(live).low, high |-> LenHint(live).high,
                  since |-> handed]
      /\ UNCHANGED <<shape, words, prefix, tail, loaded, current, base, out, handed, mode,
                     writes, stable, ever>>
      /\ UNCHANGED <<Length, PrefixLen, TailLen, Taken>>
  BY DEF SizeHint, iter, Items, Histories, Length, PrefixLen, TailLen, TailSide, Taken
<1>2. TypeOK' /\ Shape' /\ Held' /\ Finished' /\ Counted'
  BY <1>1 DEF Inv, TypeOK, Shape, Arrays, Held, Finished, Over, Counted
<1>3. Behind'
  BY <1>1 DEF Inv, Behind, Explains, May, InOp, LiveBit
<1>4. Hinted'
  <2>1. UnseenOnes' = UnseenOnes /\ UnseenWords' = UnseenWords
    BY <1>1 DEF UnseenOnes, UnseenWords, PairAt, TailAt, TailOp, TailSide, Combine
  <2>2. UnseenOnes \in Nat /\ UnseenWords * BITS_PER \in Nat
    BY HintCount, Sizes, BitsAssumption
  <2>3. live \in Nat /\ Cardinality(out) \in Nat
    BY Sizes
  <2>4. hint'.since = Cardinality(out)
        /\ hint'.low = LenHint(live).low /\ hint'.high = LenHint(live).high
    BY <1>1 DEF Inv, Counted
  <2> HIDE DEF live
  <2>5. /\ shape.atomic => LenHint(live).low = live
                           /\ LenHint(live).high = live + UnseenWords * BITS_PER
        /\ ~ shape.atomic => LenHint(live).low = live + UnseenOnes
                             /\ LenHint(live).high = live + UnseenOnes
    BY DEF LenHint, Exact, Bounded
  <2>6. Cardinality(current') = live /\ Cardinality(out') = Cardinality(out)
    BY <1>1 DEF live
  <2>7. CASE shape.atomic
    BY <1>1, <2>1, <2>2, <2>3, <2>4, <2>5, <2>6, <2>7 DEF Hinted
  <2>8. CASE ~ shape.atomic
    BY <1>1, <2>1, <2>2, <2>3, <2>4, <2>5, <2>6, <2>8 DEF Hinted
  <2> QED BY <2>7, <2>8
<1> QED BY <1>2, <1>3, <1>4 DEF Inv

\* Writes only widen what explains a bit.
LEMMA MayGrows ==
  ASSUME NEW s \in Slots, NEW k, NEW x, NEW in \in BOOLEAN,
         DOMAIN words'[s] = DOMAIN words[s],
         k \in DOMAIN words[s] =>
           stable'[s][k] \subseteq stable[s][k] /\ ever[s][k] \subseteq ever'[s][k],
         May(s, k, x, in)
  PROVE  May(s, k, x, in)'
  BY DEF May

LEMMA WriteInv ==
  ASSUME Inv, Write
  PROVE  Inv'
<1>1. /\ shape.atomic /\ writes < MaxWrites /\ mode \in {"next", "fold"}
      /\ writes' = writes + 1
      /\ UNCHANGED <<shape, prefix, tail, loaded, current, base, out, handed, mode, hint>>
      /\ UNCHANGED <<Length, PrefixLen, TailLen, TailSide, Taken>>
  BY DEF Write, iter, Items, Length, PrefixLen, TailLen, TailSide, Taken
<1>2. PICK s \in Slots, x \in Bits : \E k \in DOMAIN words[s] :
        words' = [words EXCEPT ![s][k] = IF x \in words[s][k] THEN words[s][k] \ {x}
                                         ELSE words[s][k] \cup {x}]
  BY DEF Write
<1>3. /\ stable' = [t \in Slots |-> [l \in DOMAIN words[t] |-> stable[t][l] \cap words'[t][l]]]
      /\ ever' = [t \in Slots |-> [l \in DOMAIN words[t] |-> ever[t][l] \cup words'[t][l]]]
  BY DEF Write
<1>4. words \in Arrays /\ stable \in Arrays /\ ever \in Arrays
  BY DEF Inv, Shape
<1>5. words' \in Arrays /\ \A t \in Slots : DOMAIN words'[t] = DOMAIN words[t]
  <2>1. PICK k \in DOMAIN words[s] :
          words' = [words EXCEPT ![s][k] = IF x \in words[s][k] THEN words[s][k] \ {x}
                                           ELSE words[s][k] \cup {x}]
    BY <1>2
  <2> DEFINE new == IF x \in words[s][k] THEN words[s][k] \ {x} ELSE words[s][k] \cup {x}
             row == [words[s] EXCEPT ![k] = new]
  <2>2. DOMAIN words = Slots
    BY <1>4 DEF Arrays, Slots
  <2>3. words' = [words EXCEPT ![s] = row]
    BY <2>1
  <2>4. /\ words["a"] \in [0 .. shape.a - 1 -> SUBSET Bits]
        /\ words["b"] \in [0 .. shape.b - 1 -> SUBSET Bits]
    BY <1>4 DEF Arrays
  <2>5. \A m : words[s] \in [0 .. m - 1 -> SUBSET Bits] => row \in [0 .. m - 1 -> SUBSET Bits]
    <3>1. \A m : words[s] \in [0 .. m - 1 -> SUBSET Bits] => new \in SUBSET Bits
      BY <2>1
    <3> HIDE DEF new
    <3> QED BY <2>1, <3>1
  <2>6. DOMAIN row = DOMAIN words[s]
    OBVIOUS
  <2> HIDE DEF row
  <2>7. words' = [t \in Slots |-> IF t = s THEN row ELSE words[t]]
    BY <1>4, <2>2, <2>3 DEF Arrays
  <2>8. /\ words'["a"] \in [0 .. shape.a - 1 -> SUBSET Bits]
        /\ words'["b"] \in [0 .. shape.b - 1 -> SUBSET Bits]
    BY <2>4, <2>5, <2>7 DEF Slots
  <2>9. words' = [a |-> words'["a"], b |-> words'["b"]]
    BY <2>7 DEF Slots
  <2>10. words' \in Arrays
    BY <2>8, <2>9 DEF Arrays
  <2>11. \A t \in Slots : DOMAIN words'[t] = DOMAIN words[t]
    BY <2>6, <2>7
  <2> QED BY <2>10, <2>11
<1>6. stable' \in Arrays /\ ever' \in Arrays
  BY <1>3, <1>4, <1>5 DEF Arrays, Slots
<1>7. \A t \in Slots : \A l \in DOMAIN words[t] :
        /\ stable'[t][l] = stable[t][l] \cap words'[t][l]
        /\ ever'[t][l] = ever[t][l] \cup words'[t][l]
  BY <1>3
<1>8. Arrays' = Arrays
  BY <1>1 DEF Arrays
<1>9. TypeOK'
  BY <1>1, WritesAssumption DEF Inv, TypeOK
<1>10. Shape' /\ Finished'
  BY <1>1, <1>5, <1>6, <1>7, <1>8 DEF Inv, Shape, Finished, Over
<1>11. Held'
  <2>1. ASSUME loaded # NoWord PROVE prefix \in DOMAIN words["a"]
    <3>1. prefix \in 0 .. PrefixLen - 1
      BY <2>1, Lengths DEF Inv, TypeOK
    <3> QED BY <3>1, WordsThere
  <2> QED BY <1>1, <1>7, <2>1 DEF Inv, Held, Slots
<1>12. \A k1, z, in : Explains(k1, z, in) => Explains(k1, z, in)'
  <2> SUFFICES ASSUME NEW k1, NEW z, NEW in, Explains(k1, z, in)
               PROVE  Explains(k1, z, in)'
    OBVIOUS
  <2>1. PICK inA \in BOOLEAN, inB \in BOOLEAN :
          May("a", k1, z, inA) /\ May("b", k1, z, inB) /\ (in <=> InOp(inA, inB))
    BY DEF Explains
  <2>2. May("a", k1, z, inA)'
    BY <1>5, <1>7, <2>1, MayGrows DEF Slots
  <2>3. May("b", k1, z, inB)'
    BY <1>5, <1>7, <2>1, MayGrows DEF Slots
  <2>4. InOp(inA, inB)' <=> InOp(inA, inB)
    BY <1>1 DEF InOp
  <2> QED BY <2>1, <2>2, <2>3, <2>4 DEF Explains
<1>13. Behind'
  BY <1>1, <1>12 DEF Inv, Behind, LiveBit
<1>14. Counted' /\ Hinted'
  BY <1>1 DEF Inv, Counted, Hinted, UnseenWords
<1> QED BY <1>9, <1>10, <1>11, <1>13, <1>14 DEF Inv

LEMMA NextInv ==
  ASSUME Inv, [Next]_vars
  PROVE  Inv'
<1>1. CASE UNCHANGED vars
  <2>1. /\ UNCHANGED <<shape, words, prefix, tail, loaded, current, base, out, handed, mode,
                       hint, writes, stable, ever>>
        /\ UNCHANGED <<Length, PrefixLen, TailLen, Taken>>
    BY <1>1 DEF vars, Length, PrefixLen, TailLen, TailSide, Taken
  <2>2. TypeOK' /\ Shape' /\ Held' /\ Finished'
    BY <2>1 DEF Inv, TypeOK, Shape, Arrays, Held, Finished, Over
  <2>3. Behind' /\ Counted' /\ Hinted'
    BY <2>1 DEF Inv, Behind, Explains, May, InOp, LiveBit, Counted, Hinted, UnseenOnes, UnseenWords,
                PairAt, TailAt, TailOp, TailSide, Combine
  <2> QED BY <2>2, <2>3 DEF Inv
<1> QED BY <1>1, YieldInv, UnheldInv, TakePrefixAInv, TakePrefixBInv, TakeTailInv, NoneInv, FoldInv,
           SizeHintInv, WriteInv DEF Next

-----------------------------------------------------------------------------
\* What the set operations have taken, handed out and hinted, for any two slices.
THEOREM Invariant == Spec => []Inv
<1>1. Inv /\ [Next]_vars => Inv'
  BY NextInv
<1> QED BY <1>1, InitInv, PTL DEF Spec

\* No slice is read past its end, and the bases follow the words.
THEOREM TypeCorrect == Spec => []TypeOK
<1>1. Inv => TypeOK
  BY DEF Inv
<1> QED BY <1>1, Invariant, PTL

\* A size_hint covers the items that come after it, and is exact on plain words.
THEOREM OpHintCorrect == Spec => []HintHolds
<1>1. ASSUME Inv PROVE HintHolds
  <2> SUFFICES ASSUME Over, hint # NoHint PROVE HintHolds
    BY DEF HintHolds
  <2>1. current = {} /\ prefix = PrefixLen /\ tail = TailLen
    BY <1>1 DEF Inv, Finished
  <2>2. /\ Cardinality(current) = 0 /\ Cardinality(out) \in Nat
        /\ PrefixLen \in Nat /\ TailLen \in Nat /\ PrefixLen + TailLen = Length
    BY <1>1, <2>1, Sizes, Lengths, FS_EmptySet
  <2>3. UnseenWords = 0 /\ UnseenWords * BITS_PER = 0
    BY <2>1, <2>2, BitsAssumption DEF UnseenWords
  <2>4. UnseenOnes = 0
    <3>1. Taken = Length
      BY <2>1, <2>2 DEF Taken
    <3>2. Rest(Length) = {}
      BY <2>2 DEF Rest
    <3> QED BY <1>1, <3>1, <3>2, HintCount, FS_EmptySet
  <2>5. handed = Cardinality(out) /\ mode # "panicked"
    BY <1>1 DEF Inv, Counted, Over
  <2> QED BY <1>1, <2>2, <2>3, <2>4, <2>5 DEF Inv, Hinted, HintHolds
<1> QED BY <1>1, Invariant, PTL

\* Each item, and each missing one, is explained by a moment of each slice.
THEOREM ExplainedCorrect == Spec => []Explained
<1>1. ASSUME Inv PROVE Explained
  <2> SUFFICES ASSUME Over, NEW k \in 0 .. Larger(shape.a, shape.b) - 1, NEW x \in Bits
               PROVE  Explains(k, x, k * BITS_PER + x \in out)
    BY DEF Explained, Explains
  <2>1. current = {} /\ prefix = PrefixLen /\ tail = TailLen
    BY <1>1 DEF Inv, Finished
  <2>2. /\ Length \in Nat /\ PrefixLen \in Nat /\ TailLen \in Nat
        /\ Taken = Length /\ shape.a \in Nat /\ shape.b \in Nat /\ k \in Nat
    BY <1>1, <2>1, Lengths DEF Taken, Inv, TypeOK, Larger
  <2>3. CASE k < Length
    <3>1. k \in 0 .. Taken - 1 /\ ~ LiveBit(k, x)
      BY <2>1, <2>2, <2>3 DEF LiveBit
    <3> QED BY <1>1, <3>1 DEF Inv, Behind, Explains, Over
  <2>4. CASE k >= Length
    <3>1. k * BITS_PER + x \notin out
      BY <1>1, <2>2, <2>4, JoinItem DEF Inv, Behind
    <3>2. PICK inA \in BOOLEAN, inB \in BOOLEAN :
            May("a", k, x, inA) /\ May("b", k, x, inB) /\ ~ InOp(inA, inB)
      <4>1. ASSUME NEW s \in Slots PROVE \E in \in BOOLEAN : May(s, k, x, in)
        <5>1. CASE k \in DOMAIN words[s]
          <6>1. May(s, k, x, x \in words[s][k])
            BY <1>1, <5>1, MayNow DEF Inv
          <6>2. (x \in words[s][k]) \in BOOLEAN
            OBVIOUS
          <6> QED BY <6>1, <6>2, Zenon
        <5>2. CASE k \notin DOMAIN words[s]
          BY <1>1, <5>2, MayNow DEF Inv
        <5> QED BY <5>1, <5>2
      <4>2. PICK inA \in BOOLEAN, inB \in BOOLEAN : May("a", k, x, inA) /\ May("b", k, x, inB)
        BY <4>1 DEF Slots
      <4>3. k \in DOMAIN words["a"] <=> k < shape.a
        BY <1>1, <2>2 DEF Inv, Shape, Arrays
      <4>4. k \in DOMAIN words["b"] <=> k < shape.b
        BY <1>1, <2>2 DEF Inv, Shape, Arrays
      <4>5. shape.op \in {"difference", "intersection"} /\ shape \in ShapeType
        BY <1>1, <2>2, <2>4, ShapesAssumption DEF Inv, TypeOK, ShapeType, Length, Larger, Smaller
      <4>6. CASE shape.op = "difference"
        <5>1. May("a", k, x, FALSE)
          BY <2>4, <2>2, <4>3, <4>6 DEF May, Length
        <5> QED BY <4>2, <4>6, <5>1 DEF InOp
      <4>7. CASE shape.op = "intersection"
        <5>1. May("a", k, x, FALSE) \/ May("b", k, x, FALSE)
          BY <2>4, <2>2, <4>3, <4>4, <4>7 DEF May, Length, Smaller
        <5> QED BY <4>2, <4>7, <5>1 DEF InOp
      <4> QED BY <4>5, <4>6, <4>7
    <3> QED BY <3>1, <3>2 DEF Explains
  <2> QED BY <2>2, <2>3, <2>4
<1> QED BY <1>1, Invariant, PTL

\* What the iterator has handed out of slices that stay as they are while it is
\* at work, which plain words always do: the operation of the two sets.
In(s, k, x) == k \in DOMAIN words[s] /\ x \in words[s][k]
Still == stable = words /\ ever = words
StillExact ==
  /\ ~ shape.atomic => Still
  /\ Over /\ Still =>
       \A k \in 0 .. Larger(shape.a, shape.b) - 1, x \in Bits :
         k * BITS_PER + x \in out <=> InOp(In("a", k, x), In("b", k, x))

LEMMA StillMay ==
  ASSUME Still, NEW s \in Slots, NEW k, NEW x, NEW in \in BOOLEAN, May(s, k, x, in)
  PROVE  in <=> In(s, k, x)
<1>1. CASE in
  BY <1>1 DEF Still, May, In
<1>2. CASE ~ in
  BY <1>2 DEF Still, May, In
<1> QED BY <1>1, <1>2

\* Nothing is lost and nothing is made up where nobody writes.
THEOREM ExactWhenStill == Spec => []StillExact
<1>1. ASSUME Inv, Explained PROVE StillExact
  <2>1. ~ shape.atomic => Still
    BY <1>1 DEF Inv, Shape, Still
  <2>2. ASSUME Over, Still, NEW k \in 0 .. Larger(shape.a, shape.b) - 1, NEW x \in Bits
        PROVE  k * BITS_PER + x \in out <=> InOp(In("a", k, x), In("b", k, x))
    <3>1. PICK inA \in BOOLEAN, inB \in BOOLEAN :
            /\ May("a", k, x, inA) /\ May("b", k, x, inB)
            /\ (k * BITS_PER + x \in out) <=> InOp(inA, inB)
      BY <1>1, <2>2 DEF Explained
    <3>2. (inA <=> In("a", k, x)) /\ (inB <=> In("b", k, x))
      BY <2>2, <3>1, StillMay DEF Slots
    <3>3. In("a", k, x) \in BOOLEAN /\ In("b", k, x) \in BOOLEAN
      BY DEF In
    <3>4. inA = In("a", k, x) /\ inB = In("b", k, x)
      BY <3>2, <3>3
    <3> QED BY <3>1, <3>4
  <2> QED BY <2>1, <2>2 DEF StillExact
<1> QED BY <1>1, Invariant, ExplainedCorrect, PTL

\* Every item handed out is a new one, above all that were handed out before,
\* whatever other threads write.
THEOREM AscendingCorrect == Spec => Ascending
<1> DEFINE Rises == handed' # handed =>
                      \E x \in out' \ out : out' = out \cup {x} /\ \A y \in out : y < x
<1>1. ASSUME Inv, [Next]_vars PROVE Rises
  <2>1. CASE Yield
    <3>1. PICK x \in current : out' = out \cup {Item(x)}
      BY <2>1 DEF Yield, HandOut
    <3>2. Item(x) \in Nat /\ \A y \in out : y < Item(x)
      BY <1>1, FreshItem
    <3>3. Item(x) \notin out
      BY <3>2
    <3> QED BY <3>1, <3>2, <3>3
  <2>2. CASE ~ Yield
    <3>1. handed' = handed
      BY <1>1, <2>2 DEF Next, Unheld, TakePrefixA, TakePrefixB, TakeTail, None, Fold, SizeHint,
                        Write, Items, vars
    <3> QED BY <3>1
  <2> QED BY <2>1, <2>2
<1>2. Inv /\ [Next]_vars => [Rises]_vars
  BY <1>1
<1> QED BY <1>1, Invariant, PTL DEF Ascending, Spec

=============================================================================
