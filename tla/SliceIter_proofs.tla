-------------------------- MODULE SliceIter_proofs --------------------------
(***************************************************************************)
(* Proofs about SliceIter: the iterators over one slice hand out what they *)
(* should, in order, and their size_hint holds, and hash feeds what it     *)
(* should, for any word width and length and any writes.                   *)
(***************************************************************************)
EXTENDS SliceIter, FiniteSetTheorems, TLAPS

\* The word an item lies in, and its bit there; the words of the slice.
Word(x) == x \div BITS_PER
Bit(x) == x % BITS_PER
Len == Cardinality(DOMAIN words)

-----------------------------------------------------------------------------
\* Items, words and bits.

LEMMA SplitItem ==
  ASSUME NEW x \in Nat
  PROVE  Word(x) \in Nat /\ Bit(x) \in Bits /\ x = Word(x) * BITS_PER + Bit(x)
  BY SliceIterAssumption DEF Word, Bit, Bits

LEMMA JoinItem ==
  ASSUME NEW k \in Nat, NEW b \in Bits
  PROVE  k * BITS_PER + b \in Nat /\ Word(k * BITS_PER + b) = k /\ Bit(k * BITS_PER + b) = b
  BY SliceIterAssumption DEF Word, Bit, Bits

LEMMA ItemBound ==
  ASSUME NEW x \in Nat, NEW n \in Nat
  PROVE  x < n * BITS_PER <=> Word(x) < n
  BY SliceIterAssumption, SplitItem DEF Word, Bit, Bits

LEMMA FiniteBelow ==
  ASSUME NEW m \in Int, NEW S \in SUBSET (0 .. m - 1)
  PROVE  IsFiniteSet(S) /\ Cardinality(S) \in Nat
<1>1. IsFiniteSet(0 .. m - 1)
  BY FS_Interval
<1> QED BY <1>1, FS_Subset, FS_CardinalityType

LEMMA BitsFinite ==
  /\ IsFiniteSet(Bits)
  /\ \A b \in SUBSET Bits : /\ IsFiniteSet(b) /\ Cardinality(b) \in Nat
                            /\ Cardinality(b) <= BITS_PER
<1>1. IsFiniteSet(Bits) /\ Cardinality(Bits) = BITS_PER
  BY SliceIterAssumption, FS_Interval DEF Bits
<1>2. \A b \in SUBSET Bits : IsFiniteSet(b) /\ Cardinality(b) <= Cardinality(Bits)
  BY <1>1, FS_Subset
<1>3. \A b \in SUBSET Bits : Cardinality(b) \in Nat
  BY <1>2, FS_CardinalityType
<1> QED BY <1>1, <1>2, <1>3

\* The items of some words from one on are those bits.
LEMMA ItemIff ==
  ASSUME NEW n \in Nat, NEW ws \in [0 .. n - 1 -> SUBSET Bits], NEW k \in Nat
  PROVE  /\ \A x : x \in ItemsFrom(ws, k) <=>
              x \in Nat /\ Word(x) \in k .. n - 1 /\ Bit(x) \in ws[Word(x)]
         /\ IsFiniteSet(ItemsFrom(ws, k))
         /\ Cardinality(ItemsFrom(ws, k)) \in Nat
<1>1. Cardinality(DOMAIN ws) = n
  BY FS_Interval
<1>2. n * BITS_PER \in Nat
  BY SliceIterAssumption
<1>3. \A x : x \in 0 .. n * BITS_PER - 1 <=> x \in Nat /\ Word(x) < n
  BY <1>2, ItemBound
<1>4. \A x : x \in ItemsFrom(ws, k) <=>
        x \in 0 .. n * BITS_PER - 1 /\ Word(x) >= k /\ Bit(x) \in ws[Word(x)]
  BY <1>1 DEF ItemsFrom, Word, Bit
<1>5. \A x : x \in ItemsFrom(ws, k) <=>
              x \in Nat /\ Word(x) \in k .. n - 1 /\ Bit(x) \in ws[Word(x)]
  <2>1. \A x \in Nat : Word(x) < n /\ Word(x) >= k <=> Word(x) \in k .. n - 1
    BY SplitItem
  <2> QED BY <1>3, <1>4, <2>1
<1>6. IsFiniteSet(ItemsFrom(ws, k)) /\ Cardinality(ItemsFrom(ws, k)) \in Nat
  <2> DEFINE m == n * BITS_PER
  <2>1. m \in Int /\ ItemsFrom(ws, k) \in SUBSET (0 .. m - 1)
    BY <1>2, <1>4
  <2> HIDE DEF m
  <2> QED BY <2>1, FiniteBelow
<1> QED BY <1>5, <1>6

\* A word has as many items as bits.
LEMMA ItemsAtCard ==
  ASSUME NEW k \in Int, NEW b \in SUBSET Bits
  PROVE  /\ IsFiniteSet(ItemsAt(k, b))
         /\ Cardinality(ItemsAt(k, b)) = Cardinality(b)
<1> DEFINE f == [x \in b |-> k * BITS_PER + x]
<1>1. f \in [b -> ItemsAt(k, b)]
  BY DEF ItemsAt
<1>2. \A x, y \in b : f[x] = f[y] => x = y
  <2>1. k * BITS_PER \in Int
    BY SliceIterAssumption
  <2> QED BY <2>1 DEF Bits
<1>3. \A y \in ItemsAt(k, b) : \E x \in b : f[x] = y
  BY DEF ItemsAt
<1>4. f \in Bijection(b, ItemsAt(k, b))
  BY <1>1, <1>2, <1>3, Zenon DEF Bijection, Injection, Surjection, IsInjective
<1>5. ExistsBijection(b, ItemsAt(k, b))
  BY <1>4 DEF ExistsBijection
<1> QED BY <1>5, BitsFinite, FS_Bijection

\* The items from a word on are its own and those of the words after it.
LEMMA ItemsSplit ==
  ASSUME NEW n \in Nat, NEW ws \in [0 .. n - 1 -> SUBSET Bits], NEW k \in 0 .. n - 1
  PROVE  Cardinality(ItemsFrom(ws, k)) =
           Cardinality(ws[k]) + Cardinality(ItemsFrom(ws, k + 1))
<1>1. \A x : x \in ItemsAt(k, ws[k]) <=> x \in Nat /\ Word(x) = k /\ Bit(x) \in ws[k]
  <2>1. ASSUME NEW b \in ws[k]
        PROVE  k * BITS_PER + b \in Nat /\ Word(k * BITS_PER + b) = k
               /\ Bit(k * BITS_PER + b) = b
    BY JoinItem
  <2>2. ASSUME NEW x \in Nat, Word(x) = k PROVE x = k * BITS_PER + Bit(x)
    BY <2>2, SplitItem
  <2> QED BY <2>1, <2>2 DEF ItemsAt
<1>2. \A x : x \in ItemsFrom(ws, k) <=>
        x \in Nat /\ Word(x) \in k .. n - 1 /\ Bit(x) \in ws[Word(x)]
  BY ItemIff
<1>3. /\ \A x : x \in ItemsFrom(ws, k + 1) <=>
           x \in Nat /\ Word(x) \in k + 1 .. n - 1 /\ Bit(x) \in ws[Word(x)]
      /\ IsFiniteSet(ItemsFrom(ws, k + 1)) /\ Cardinality(ItemsFrom(ws, k + 1)) \in Nat
  BY ItemIff
<1>4. ItemsFrom(ws, k) = ItemsAt(k, ws[k]) \cup ItemsFrom(ws, k + 1)
  <2>1. \A x \in Nat : Word(x) \in k .. n - 1 <=> Word(x) = k \/ Word(x) \in k + 1 .. n - 1
    BY SplitItem
  <2> QED BY <1>1, <1>2, <1>3, <2>1
<1>5. ItemsAt(k, ws[k]) \cap ItemsFrom(ws, k + 1) = {}
  BY <1>1, <1>3
<1>6. /\ IsFiniteSet(ItemsAt(k, ws[k]))
      /\ Cardinality(ItemsAt(k, ws[k])) = Cardinality(ws[k]) /\ Cardinality(ws[k]) \in Nat
  BY ItemsAtCard, BitsFinite
<1>7. Cardinality(ItemsFrom(ws, k)) =
        Cardinality(ItemsAt(k, ws[k])) + Cardinality(ItemsFrom(ws, k + 1))
        - Cardinality(ItemsAt(k, ws[k]) \cap ItemsFrom(ws, k + 1))
  BY <1>3, <1>4, <1>6, FS_Union
<1>8. Cardinality(ItemsAt(k, ws[k]) \cap ItemsFrom(ws, k + 1)) = 0
  BY <1>5, FS_EmptySet
<1> QED BY <1>3, <1>6, <1>7, <1>8

\* Words with the same contents from k on have the same items there.
LEMMA SameItems ==
  ASSUME NEW n \in Nat, NEW ws \in [0 .. n - 1 -> SUBSET Bits],
         NEW vs \in [0 .. n - 1 -> SUBSET Bits], NEW k \in Nat,
         \A l \in k .. n - 1 : vs[l] = ws[l]
  PROVE  ItemsFrom(vs, k) = ItemsFrom(ws, k)
<1>1. /\ \A x : x \in ItemsFrom(ws, k) <=>
           x \in Nat /\ Word(x) \in k .. n - 1 /\ Bit(x) \in ws[Word(x)]
      /\ \A x : x \in ItemsFrom(vs, k) <=>
           x \in Nat /\ Word(x) \in k .. n - 1 /\ Bit(x) \in vs[Word(x)]
  BY ItemIff
<1> QED BY <1>1

-----------------------------------------------------------------------------
\* The inductive invariant.  An iterator has taken the words before word_idx; of
\* these it has handed out everything that was there all along, but for what is
\* left of the live word.

\* The words, and what they may have held.
Shape ==
  /\ Len \in Nat
  /\ words \in [0 .. Len - 1 -> SUBSET Bits]
  /\ stable \subseteq ever
  /\ \A x \in ever : x \in Nat /\ Word(x) < Len
  /\ kind \notin SharedKinds => stable = ever
  /\ kind \in CopyKinds => Len = 1 /\ word_idx = 1

\* Where the iterator is.
Control ==
  /\ state \in {"fold", "folded"} => kind = "atomic"
  /\ state \in {"none", "folded", "dropped"} => current = {}
  /\ state \in {"none", "folded"} => word_idx = Len

\* The words ahead hold what has stayed, and nothing that never was.
Ahead ==
  state # "dropped" =>
  /\ \A x \in stable : Word(x) >= word_idx => Bit(x) \in words[Word(x)]
  /\ \A k \in word_idx .. Len - 1 : \A b \in words[k] : k * BITS_PER + b \in ever

\* What has stayed in the words behind is out, or left in the live word, or is the
\* item of a panic; what is out was there, in these words, below what is left.
Refused(x) == state = "panicked" /\ x \notin Convertible /\ \A y \in out : y < x
Behind ==
  /\ \A b \in current : (word_idx - 1) * BITS_PER + b \in ever
  /\ \A x \in stable : Word(x) < word_idx /\ state # "dropped" =>
       x \in out \/ (Word(x) = word_idx - 1 /\ Bit(x) \in current) \/ Refused(x)
  /\ \A x \in out : x \in ever /\ Word(x) < word_idx
  /\ \A x \in out : Word(x) = word_idx - 1 => \A b \in current : Bit(x) < b

\* A Drain has emptied what it has taken; the set of a copy held nothing when
\* the copy was its drain.
Emptied ==
  /\ kind = "drain" => \A k \in DOMAIN words :
       k < word_idx \/ state = "dropped" => words[k] = {}
  /\ kind = "prim_drain" => Cardinality(Items(words)) <= writes

\* hash: what has stayed is not in a word its search is past; the last word to
\* feed held something, once.
Searched ==
  /\ state \in {"rposition", "feed", "hashed"} <=> kind = "hash"
  /\ kind = "hash" =>
       /\ current = {} /\ hint = NoHint
       /\ \A x \in stable : Word(x) < effective_len
       /\ state = "rposition" => word_idx = 0
       /\ state # "rposition" =>
            /\ word_idx <= effective_len
            /\ effective_len > 0 => \E x \in ever : Word(x) = effective_len - 1
       /\ state = "hashed" => word_idx = effective_len

\* A size_hint, once given, keeps to the items to come.
Gone == {"dropped", "panicked"}
Hinted ==
  hint # NoHint =>
    /\ hint.low \in Nat /\ hint.since \in Nat
    /\ kind # "atomic" /\ state \notin Gone =>
         /\ hint.len = Cardinality(out) - hint.since + ExactLen /\ hint.len \in Nat
         /\ kind \in CopyKinds => hint.low = 0 /\ hint.high = Absent
         /\ kind \notin CopyKinds => hint.low = hint.len /\ hint.high = hint.len
    /\ kind = "atomic" /\ state \notin Gone =>
         /\ hint.low <= Cardinality(out) - hint.since + LiveOnes
         /\ hint.high \in Nat
         /\ Cardinality(out) - hint.since + LiveOnes + Unseen * BITS_PER <= hint.high

Inv ==
  /\ TypeOK /\ Shape /\ Control /\ Ahead /\ Behind /\ Emptied /\ Searched /\ Hinted

-----------------------------------------------------------------------------
\* The bounds of an item, and what is out, are finite.
LEMMA OutFinite ==
  ASSUME Inv
  PROVE  /\ IsFiniteSet(out) /\ Cardinality(out) \in Nat
         /\ IsFiniteSet(current) /\ LiveOnes \in Nat /\ LiveOnes <= BITS_PER
         /\ word_idx \in 0 .. Len /\ Unseen \in Nat
         /\ UnseenOnes \in Nat
<1>1. Len \in Nat /\ word_idx \in 0 .. Len /\ current \in SUBSET Bits
      /\ words \in [0 .. Len - 1 -> SUBSET Bits]
  BY DEF Inv, TypeOK, Shape, Len
<1>2. Len * BITS_PER \in Nat /\ out \subseteq 0 .. Len * BITS_PER - 1
  BY <1>1, SliceIterAssumption DEF Inv, TypeOK, Len
<1>3. IsFiniteSet(out) /\ Cardinality(out) \in Nat
  <2> DEFINE m == Len * BITS_PER
  <2>1. m \in Int /\ out \in SUBSET (0 .. m - 1)
    BY <1>2, <1>2
  <2> HIDE DEF m
  <2> QED BY <2>1, FiniteBelow
<1>5. UnseenOnes \in Nat
  BY <1>1, ItemIff DEF UnseenOnes
<1>6. Unseen \in Nat
  BY <1>1 DEF Unseen, Len
<1> QED BY <1>1, <1>3, <1>5, <1>6, BitsFinite DEF LiveOnes

\* An item of the live word is new.
LEMMA FreshItem ==
  ASSUME Inv, NEW x \in current
  PROVE  /\ word_idx - 1 \in Nat /\ (word_idx - 1) * BITS_PER + x \in Nat
         /\ Word((word_idx - 1) * BITS_PER + x) = word_idx - 1
         /\ Bit((word_idx - 1) * BITS_PER + x) = x
         /\ (word_idx - 1) * BITS_PER + x \notin out
         /\ (word_idx - 1) * BITS_PER + x \in 0 .. Len * BITS_PER - 1
         /\ \A y \in out : (\A z \in current : x <= z) => y < (word_idx - 1) * BITS_PER + x
<1>1. x \in Bits /\ word_idx \in Nat /\ word_idx - 1 \in Nat /\ word_idx <= Len /\ Len \in Nat
  BY OutFinite DEF Inv, TypeOK, Shape
<1>2. /\ (word_idx - 1) * BITS_PER + x \in Nat
      /\ Word((word_idx - 1) * BITS_PER + x) = word_idx - 1
      /\ Bit((word_idx - 1) * BITS_PER + x) = x
  BY <1>1, JoinItem
<1>3. (word_idx - 1) * BITS_PER + x \notin out
  BY <1>1, <1>2 DEF Inv, Behind, Bits
<1>4. (word_idx - 1) * BITS_PER + x < Len * BITS_PER
  <2> DEFINE y == (word_idx - 1) * BITS_PER + x
  <2>1. y \in Nat /\ Word(y) < Len
    BY <1>1, <1>2
  <2> HIDE DEF y
  <2>2. y < Len * BITS_PER
    BY <1>1, <2>1, ItemBound
  <2> QED BY <2>2 DEF y
<1>5. Len * BITS_PER \in Nat
  BY <1>1, SliceIterAssumption
<1>6. ASSUME NEW y \in out PROVE y < (word_idx - 1) * BITS_PER + x
  <2> DEFINE z == (word_idx - 1) * BITS_PER + x
  <2>1. y \in Nat /\ Word(y) < word_idx /\ (Word(y) = word_idx - 1 => Bit(y) < x)
    BY DEF Inv, Shape, Behind
  <2>2. z \in Nat /\ Word(z) = word_idx - 1 /\ Bit(z) = x
    BY <1>2
  <2> HIDE DEF z
  <2>3. Word(y) \in Nat /\ Bit(y) \in Bits /\ y = Word(y) * BITS_PER + Bit(y)
        /\ z = Word(z) * BITS_PER + Bit(z)
    BY <2>1, <2>2, SplitItem
  <2>4. y < z
    <3>1. CASE Word(y) = word_idx - 1
      BY <1>1, <2>1, <2>2, <2>3, <3>1, SliceIterAssumption DEF Bits
    <3>2. CASE Word(y) + 1 <= word_idx - 1
      <4>1. (Word(y) + 1) * BITS_PER <= (word_idx - 1) * BITS_PER
        BY <1>1, <2>3, <3>2, SliceIterAssumption
      <4>2. (Word(y) + 1) * BITS_PER = Word(y) * BITS_PER + BITS_PER
        BY <2>3, SliceIterAssumption
      <4>3. Word(y) * BITS_PER \in Nat /\ (word_idx - 1) * BITS_PER \in Nat
        BY <1>1, <2>3, SliceIterAssumption
      <4> QED BY <1>1, <2>2, <2>3, <4>1, <4>2, <4>3, SliceIterAssumption DEF Bits
    <3> QED BY <1>1, <2>1, <2>3, <3>1, <3>2
  <2> QED BY <2>4 DEF z
<1> QED BY <1>1, <1>2, <1>3, <1>4, <1>5, <1>6

\* The first states.
LEMMA InitInv == Init => Inv
<1> SUFFICES ASSUME Init PROVE Inv
  OBVIOUS
<1>1. CASE Borrowed
  <2>1. PICK n \in 0 .. MaxLen : words \in [0 .. n - 1 -> SUBSET Bits]
    BY <1>1 DEF Borrowed
  <2>2. Len = n /\ n \in Nat
    BY <2>1, FS_Interval, SliceIterAssumption DEF Len
  <2>3. \A x : x \in stable <=> x \in Nat /\ Word(x) \in 0 .. n - 1 /\ Bit(x) \in words[Word(x)]
    BY <1>1, <2>1, <2>2, ItemIff DEF Borrowed, Items
  <2>4. /\ kind \in SliceKinds /\ kind \in Kinds /\ kind \notin CopyKinds
        /\ word_idx = 0 /\ current = {} /\ ever = stable /\ out = {}
        /\ hint = NoHint /\ writes = 0
        /\ IF kind = "hash" THEN state = "rposition" /\ effective_len = n
                            ELSE state = "open" /\ effective_len = 0
    BY <1>1, <2>2 DEF Init, Borrowed, SliceKinds, CopyKinds, Len
  <2>5. TypeOK
    BY <2>1, <2>2, <2>4, SliceIterAssumption DEF TypeOK, Len
  <2>6. Shape
    BY <2>1, <2>2, <2>3, <2>4 DEF Shape
  <2>7. Ahead
    <3>1. ASSUME NEW k \in 0 .. n - 1, NEW b \in words[k] PROVE k * BITS_PER + b \in ever
      BY <2>1, <2>3, <2>4, JoinItem
    <3> QED BY <2>2, <2>3, <2>4, <3>1 DEF Ahead
  <2>8. Behind
    BY <2>3, <2>4, SplitItem DEF Behind
  <2>9. Control /\ Emptied /\ Searched /\ Hinted
    BY <2>1, <2>2, <2>3, <2>4 DEF Control, Emptied, Searched, Hinted, SliceKinds
  <2> QED BY <2>5, <2>6, <2>7, <2>8, <2>9 DEF Inv
<1>2. CASE Copied
  <2>1. /\ kind \in Kinds /\ kind \in CopyKinds /\ kind \notin SharedKinds /\ kind # "drain"
        /\ current \in SUBSET Bits /\ word_idx = 1 /\ stable = current
        /\ ever = stable /\ out = {} /\ state = "open" /\ hint = NoHint /\ writes = 0
        /\ effective_len = 0
    BY <1>2 DEF Init, Copied, CopyKinds, SharedKinds
  <2>2. words \in [0 .. 1 - 1 -> SUBSET Bits] /\ (kind = "prim_drain" => words[0] = {})
    BY <1>2, <2>1 DEF Copied
  <2>3. Len = 1
    <3>1. DOMAIN words = {0}
      BY <2>2
    <3> QED BY <3>1, FS_Singleton DEF Len
  <2>4. \A x \in ever : x \in Nat /\ Word(x) = 0 /\ Bit(x) = x
    BY <2>1, SliceIterAssumption DEF Word, Bit, Bits
  <2>5. TypeOK
    BY <2>1, <2>2, <2>3, SliceIterAssumption DEF TypeOK, Len
  <2>6. Shape /\ Control
    BY <2>1, <2>2, <2>3, <2>4 DEF Shape, Control
  <2>7. Ahead
    BY <2>1, <2>3, <2>4 DEF Ahead
  <2>8. Behind
    <3>1. \A b \in current : (word_idx - 1) * BITS_PER + b = b
      BY <2>1, SliceIterAssumption DEF Bits
    <3> QED BY <2>1, <2>4, <3>1 DEF Behind
  <2>9. Emptied
    <3>1. ASSUME kind = "prim_drain" PROVE Items(words) = {}
      <4>1. \A x : x \in ItemsFrom(words, 0) =>
              x \in Nat /\ Word(x) \in 0 .. 1 - 1 /\ Bit(x) \in words[Word(x)]
        BY <2>2, ItemIff
      <4>2. \A x : x \notin ItemsFrom(words, 0)
        BY <2>2, <3>1, <4>1
      <4> QED BY <4>2 DEF Items
    <3> QED BY <2>1, <3>1, FS_EmptySet DEF Emptied
  <2>10. Searched /\ Hinted
    BY <2>1 DEF Searched, Hinted, SharedKinds
  <2> QED BY <2>5, <2>6, <2>7, <2>8, <2>9, <2>10 DEF Inv
<1> QED BY <1>1, <1>2 DEF Init

\* New items add to the count of what is out.
LEMMA OutGrows ==
  ASSUME Inv, NEW S, IsFiniteSet(S), S \cap out = {}
  PROVE  Cardinality(out \cup S) = Cardinality(out) + Cardinality(S)
<1>1. Cardinality(out \cap S) = 0
  <2>1. out \cap S = {}
    OBVIOUS
  <2> QED BY <2>1, FS_EmptySet
<1>2. IsFiniteSet(out) /\ Cardinality(out) \in Nat
  BY OutFinite
<1>3. Cardinality(S) \in Nat
  BY FS_CardinalityType
<1>4. Cardinality(out \cup S) = Cardinality(out) + Cardinality(S) - Cardinality(out \cap S)
  BY <1>2, FS_Union
<1> QED BY <1>1, <1>2, <1>3, <1>4

-----------------------------------------------------------------------------
\* Each step keeps the invariant.

LEMMA YieldInv ==
  ASSUME Inv, Yield
  PROVE  Inv'
<1>1. PICK x \in current : /\ \A y \in current : x <= y
                           /\ out' = out \cup {(word_idx - 1) * BITS_PER + x}
                           /\ current' = current \ {x}
  BY DEF Yield, Lowest, Item
<1> DEFINE item == (word_idx - 1) * BITS_PER + x
<1>2. /\ UNCHANGED <<kind, effective_len, words, word_idx, state, hint, writes, stable, ever>>
      /\ Len' = Len /\ Going /\ state # "panicked"
  BY DEF Yield, Histories, Len, Going, Live
<1>3. /\ item \in Nat /\ Word(item) = word_idx - 1 /\ Bit(item) = x /\ item \notin out
      /\ item \in 0 .. Len * BITS_PER - 1 /\ item \in ever
  BY <1>1, FreshItem DEF Inv, Behind
<1>4. current \in SUBSET Bits /\ word_idx \in 0 .. Len /\ Len \in Nat
  BY OutFinite DEF Inv, TypeOK, Shape
<1> HIDE DEF item
<1>5. TypeOK'
  BY <1>1, <1>2, <1>3, <1>4 DEF Inv, TypeOK, Len, item
<1>6. Shape' /\ Ahead' /\ Emptied'
  BY <1>2 DEF Inv, Shape, Ahead, Emptied, Items, ItemsFrom
<1>7. Control' /\ Searched'
  BY <1>1, <1>2 DEF Inv, Control, Searched, Going, Live
<1>8. Behind'
  <2>1. out' = out \cup {item} /\ \A b \in current' : b \in current /\ x < b
    BY <1>1, <1>4 DEF item, Bits
  <2>2. \A b \in current' : (word_idx' - 1) * BITS_PER + b \in ever'
    BY <1>2, <2>1 DEF Inv, Behind
  <2>3. ASSUME NEW y \in stable', Word(y) < word_idx', state' # "dropped"
        PROVE  y \in out' \/ (Word(y) = word_idx' - 1 /\ Bit(y) \in current')
    <3>1. y \in Nat /\ y \in stable /\ Word(y) < word_idx /\ state # "dropped"
      BY <1>2, <2>3 DEF Inv, Shape
    <3>2. CASE y \in out
      BY <2>1, <3>2
    <3>3. CASE Word(y) = word_idx - 1 /\ Bit(y) \in current /\ Bit(y) # x
      BY <1>1, <1>2, <3>3
    <3>4. CASE Word(y) = word_idx - 1 /\ Bit(y) = x
      <4>1. y = item
        BY <3>1, <3>4, SplitItem DEF item
      <4> QED BY <2>1, <4>1
    <3> QED BY <1>2, <3>1, <3>2, <3>3, <3>4 DEF Inv, Behind, Refused
  <2>4. \A y \in out' : y \in ever' /\ Word(y) < word_idx'
    BY <1>2, <1>3, <1>4, <2>1 DEF Inv, Behind
  <2>5. \A y \in out' : Word(y) = word_idx' - 1 => \A b \in current' : Bit(y) < b
    BY <1>2, <1>3, <2>1 DEF Inv, Behind
  <2> QED BY <2>2, <2>3, <2>4, <2>5 DEF Behind
<1>9. Hinted'
  <2>1. Cardinality(out') = Cardinality(out) + 1
    BY <1>1, <1>3, OutFinite, FS_AddElement DEF item
  <2>2. LiveOnes' = LiveOnes - 1
    BY <1>1, OutFinite, FS_RemoveElement DEF LiveOnes
  <2>3. UnseenOnes' = UnseenOnes /\ Unseen' = Unseen
    BY <1>2 DEF UnseenOnes, Unseen, ItemsFrom
  <2>4. Cardinality(out) \in Nat /\ LiveOnes \in Nat /\ UnseenOnes \in Nat
        /\ Unseen * BITS_PER \in Nat
    BY OutFinite, SliceIterAssumption
  <2> QED BY <1>2, <2>1, <2>2, <2>3, <2>4 DEF Inv, Hinted, ExactLen
<1> QED BY <1>5, <1>6, <1>7, <1>8, <1>9 DEF Inv

\* A panic at an item V cannot hold: it is above all that is out.
LEMMA UnheldInv ==
  ASSUME Inv, Unheld
  PROVE  Inv'
<1>1. PICK x \in current : /\ \A y \in current : x <= y
                           /\ (word_idx - 1) * BITS_PER + x \notin Convertible
                           /\ current' = current \ {x}
  BY DEF Unheld, Lowest, Item
<1> DEFINE item == (word_idx - 1) * BITS_PER + x
<1>2. /\ UNCHANGED <<kind, effective_len, words, word_idx, out, hint, writes, stable, ever>>
      /\ Len' = Len /\ Going /\ state' = "panicked"
  BY DEF Unheld, Histories, Len
<1>3. \A y \in out : y < item
  BY <1>1, FreshItem
<1> HIDE DEF item
<1>4. TypeOK'
  BY <1>1, <1>2 DEF Inv, TypeOK
<1>5. Shape' /\ Emptied'
  BY <1>2 DEF Inv, Shape, Emptied, Items, ItemsFrom, Going, Live
<1>6. Control' /\ Searched' /\ Ahead' /\ Hinted'
  BY <1>1, <1>2 DEF Inv, Control, Searched, Ahead, Hinted, Gone, Going, Live
<1>7. Behind'
  <2>1. ASSUME NEW y \in stable, Word(y) < word_idx
        PROVE  y \in out \/ (Word(y) = word_idx - 1 /\ Bit(y) \in current') \/ Refused(y)'
    <3>1. y \in Nat
      BY DEF Inv, Shape
    <3>2. CASE Word(y) = word_idx - 1 /\ Bit(y) = x
      <4>1. y = item
        BY <3>1, <3>2, SplitItem DEF item
      <4> QED BY <1>1, <1>2, <1>3, <4>1 DEF Refused, item
    <3> QED BY <1>1, <1>2, <2>1, <3>2 DEF Inv, Behind, Refused, Going, Live
  <2> QED BY <1>1, <1>2, <2>1 DEF Inv, Behind
<1> QED BY <1>4, <1>5, <1>6, <1>7 DEF Inv

LEMMA TakeWordInv ==
  ASSUME Inv, TakeWord
  PROVE  Inv'
<1> DEFINE n == Len
           k == word_idx
<1>1. /\ current = {} /\ k \in 0 .. n - 1 /\ n \in Nat
      /\ words \in [0 .. n - 1 -> SUBSET Bits]
  BY DEF TakeWord, Inv, Shape
<1>2. /\ current' = words[k] /\ word_idx' = k + 1
      /\ UNCHANGED <<kind, effective_len, out, state, hint, writes, stable, ever>>
      /\ Live \/ state = "fold"
      /\ words' = IF kind = "drain" THEN [words EXCEPT ![k] = {}] ELSE words
  BY DEF TakeWord, Histories, Going
<1>3. /\ words' \in [0 .. n - 1 -> SUBSET Bits] /\ DOMAIN words' = DOMAIN words
      /\ \A l \in 0 .. n - 1 : l # k => words'[l] = words[l]
      /\ kind = "drain" => words'[k] = {}
  BY <1>1, <1>2
<1>4. Len' = n
  BY <1>3 DEF Len
<1>5. kind \notin CopyKinds
  BY <1>1 DEF Inv, Shape
<1>6. TypeOK'
  BY <1>1, <1>2, <1>3, <1>4 DEF Inv, TypeOK, Len
<1>7. Shape'
  BY <1>2, <1>3, <1>4, <1>5 DEF Inv, Shape
<1>8. Control' /\ Searched'
  BY <1>1, <1>2 DEF Inv, Control, Searched, Live
<1>9. Ahead'
  <2>1. ASSUME state # "dropped", NEW x \in stable, Word(x) >= k + 1
        PROVE  Bit(x) \in words'[Word(x)]
    <3>1. Word(x) \in 0 .. n - 1 /\ Word(x) # k
      <4>1. x \in Nat /\ Word(x) < n
        BY DEF Inv, Shape
      <4>2. Word(x) \in Nat
        BY <4>1, SplitItem
      <4> QED BY <1>1, <2>1, <4>1, <4>2
    <3> QED BY <1>1, <1>3, <2>1, <3>1 DEF Inv, Ahead
  <2>2. ASSUME state # "dropped", NEW l \in k + 1 .. n - 1, NEW b \in words'[l]
        PROVE  l * BITS_PER + b \in ever
    BY <1>1, <1>3, <2>2 DEF Inv, Ahead
  <2> QED BY <1>2, <1>4, <2>1, <2>2 DEF Ahead
<1>10. Behind'
  <2>1. word_idx' - 1 = k
    BY <1>1, <1>2
  <2>2. \A b \in current' : k * BITS_PER + b \in ever'
    BY <1>1, <1>2 DEF Inv, Ahead, Live
  <2>3. ASSUME NEW y \in stable', Word(y) < word_idx'
        PROVE  y \in out' \/ (Word(y) = k /\ Bit(y) \in current')
    <3>1. y \in Nat /\ Word(y) \in Nat /\ state # "dropped" /\ y \in stable
      BY <1>2, SplitItem DEF Inv, Shape, Live
    <3>2. CASE Word(y) < k
      BY <1>1, <1>2, <3>1, <3>2 DEF Inv, Behind, Refused, Live
    <3>3. CASE Word(y) = k
      BY <1>1, <1>2, <3>1, <3>3 DEF Inv, Ahead
    <3> QED BY <1>1, <1>2, <2>3, <3>1, <3>2, <3>3
  <2>4. \A y \in out' : y \in ever' /\ Word(y) < k /\ y \in Nat /\ Word(y) \in Nat
    BY <1>2, SplitItem DEF Inv, Behind, Shape
  <2> QED BY <1>1, <1>2, <2>1, <2>2, <2>3, <2>4 DEF Behind
<1>11. Emptied'
  <2>1. ASSUME kind = "drain", NEW l \in DOMAIN words', l < k + 1 \/ state = "dropped"
        PROVE  words'[l] = {}
    BY <1>1, <1>2, <1>3, <2>1 DEF Inv, Emptied, Live
  <2> QED BY <1>2, <1>5, <2>1 DEF Emptied, CopyKinds
<1>12. Hinted'
  <2>1. LiveOnes = 0 /\ LiveOnes' = Cardinality(words[k])
    BY <1>1, <1>2, FS_EmptySet DEF LiveOnes
  <2>2. /\ Cardinality(ItemsFrom(words, k)) =
             Cardinality(words[k]) + Cardinality(ItemsFrom(words, k + 1))
        /\ ItemsFrom(words', k + 1) = ItemsFrom(words, k + 1)
        /\ Cardinality(ItemsFrom(words, k + 1)) \in Nat
    <3>1. k + 1 \in Nat /\ \A l \in k + 1 .. n - 1 : words'[l] = words[l]
      BY <1>1, <1>3
    <3>2. ItemsFrom(words', k + 1) = ItemsFrom(words, k + 1)
      BY <1>1, <1>3, <3>1, SameItems
    <3>3. Cardinality(ItemsFrom(words, k + 1)) \in Nat
      BY <1>1, <3>1, ItemIff
    <3> QED BY <1>1, <3>2, <3>3, ItemsSplit
  <2>3. UnseenOnes = Cardinality(words[k]) + UnseenOnes' /\ UnseenOnes' \in Nat
    BY <1>2, <2>2 DEF UnseenOnes
  <2>4. Unseen' = Unseen - 1 /\ Unseen \in Nat
    BY <1>1, <1>2, <1>4, OutFinite DEF Unseen, Len
  <2>5. Cardinality(words[k]) \in Nat /\ Cardinality(words[k]) <= BITS_PER
        /\ Cardinality(out) \in Nat
    BY <1>1, BitsFinite, OutFinite
  <2>6. Unseen' * BITS_PER = Unseen * BITS_PER - BITS_PER /\ Unseen * BITS_PER \in Nat
    BY <2>4, SliceIterAssumption
  <2> QED BY <1>2, <2>1, <2>3, <2>5, <2>6, SliceIterAssumption DEF Inv, Hinted, ExactLen
<1> QED BY <1>6, <1>7, <1>8, <1>9, <1>10, <1>11, <1>12 DEF Inv

LEMMA NoneInv ==
  ASSUME Inv, None
  PROVE  Inv'
<1>1. /\ current = {} /\ word_idx \notin DOMAIN words /\ Going
      /\ state' = IF state = "fold" THEN "folded" ELSE "none"
      /\ UNCHANGED <<kind, effective_len, words, word_idx, current, out, hint, writes, stable, ever>>
  BY DEF None, Histories
<1>2. word_idx = Len /\ Len' = Len
  BY <1>1, OutFinite DEF Inv, Shape, Len
<1>3. TypeOK' /\ Shape'
  BY <1>1, <1>2 DEF Inv, TypeOK, Shape
<1>4. Control' /\ Searched' /\ Ahead'
  BY <1>1, <1>2 DEF Inv, Control, Searched, Ahead, Going, Live
<1>5. Behind'
  BY <1>1 DEF Inv, Behind, Refused, Going, Live
<1>6. Emptied' /\ Hinted'
  BY <1>1 DEF Inv, Emptied, Hinted, Gone, Going, Live, ExactLen, LiveOnes, UnseenOnes, Unseen,
              Items, ItemsFrom
<1> QED BY <1>3, <1>4, <1>5, <1>6 DEF Inv

\* fold takes the iterator.
LEMMA FoldInv ==
  ASSUME Inv, Fold
  PROVE  Inv'
<1>1. /\ Live /\ kind = "atomic" /\ state' = "fold"
      /\ UNCHANGED <<kind, effective_len, words, word_idx, current, out, hint, writes, stable, ever>>
      /\ Len' = Len
  BY DEF Fold, Histories, Len
<1>2. TypeOK' /\ Shape' /\ Control' /\ Searched' /\ Ahead'
  BY <1>1 DEF Inv, TypeOK, Shape, Control, Searched, Ahead, Live
<1>3. Behind'
  BY <1>1 DEF Inv, Behind, Refused, Live
<1>4. Emptied' /\ Hinted'
  BY <1>1 DEF Inv, Emptied, Hinted, Gone, Live, ExactLen, LiveOnes, UnseenOnes, Unseen, Items,
              ItemsFrom
<1> QED BY <1>2, <1>3, <1>4 DEF Inv

LEMMA SizeHintInv ==
  ASSUME Inv, SizeHint
  PROVE  Inv'
<1>1. /\ UNCHANGED <<kind, effective_len, words, word_idx, current, out, state, writes, stable, ever>>
      /\ Len' = Len /\ Live
  BY DEF SizeHint, Histories, Len
<1>2. TypeOK' /\ Shape' /\ Control' /\ Ahead' /\ Behind' /\ Emptied'
  BY <1>1 DEF Inv, TypeOK, Shape, Control, Ahead, Behind, Refused, Emptied, Items, ItemsFrom
<1>3. Searched'
  BY <1>1 DEF Inv, Searched, Live
<1>4. Hinted'
  <2>1. UNCHANGED <<LiveOnes, UnseenOnes, Unseen, ExactLen>>
    BY <1>1 DEF LiveOnes, UnseenOnes, Unseen, ItemsFrom, ExactLen
  <2>2. /\ Cardinality(out) \in Nat /\ LiveOnes \in Nat /\ UnseenOnes \in Nat
        /\ Unseen * BITS_PER \in Nat /\ ExactLen \in Nat
    BY OutFinite, SliceIterAssumption DEF ExactLen
  <2>3. hint'.since = Cardinality(out)
    BY DEF SizeHint
  <2>4. CASE kind \in {"words", "drain"}
    <3>1. hint' = [low |-> ExactLen, high |-> ExactLen, len |-> ExactLen,
                   since |-> Cardinality(out)] /\ kind \notin CopyKinds /\ kind # "atomic"
      BY <2>4 DEF SizeHint, CopyKinds
    <3> QED BY <1>1, <2>1, <2>2, <3>1 DEF Hinted
  <2>5. CASE kind \in CopyKinds
    <3>1. hint' = [low |-> 0, high |-> Absent, len |-> ExactLen, since |-> Cardinality(out)]
          /\ kind # "atomic"
      BY <2>5 DEF SizeHint, CopyKinds
    <3> QED BY <1>1, <2>1, <2>2, <2>5, <3>1 DEF Hinted
  <2>6. CASE kind = "atomic"
    <3>1. hint' = [low |-> LiveOnes, high |-> LiveOnes + Unseen * BITS_PER, len |-> Absent,
                   since |-> Cardinality(out)]
      BY <2>6 DEF SizeHint, CopyKinds
    <3> QED BY <1>1, <2>1, <2>2, <2>6, <3>1 DEF Hinted
  <2> QED BY <2>4, <2>5, <2>6 DEF SizeHint
<1> QED BY <1>2, <1>3, <1>4 DEF Inv

LEMMA DropInv ==
  ASSUME Inv, Drop
  PROVE  Inv'
<1>1. /\ state' = "dropped" /\ current' = {}
      /\ Live \/ state = "panicked"
      /\ UNCHANGED <<kind, effective_len, word_idx, out, hint, writes, stable, ever>>
      /\ words' = IF kind = "drain"
                  THEN [k \in DOMAIN words |-> IF k >= word_idx THEN {} ELSE words[k]]
                  ELSE words
  BY DEF Drop, Histories
<1>2. Len \in Nat /\ words \in [0 .. Len - 1 -> SUBSET Bits] /\ word_idx \in 0 .. Len
  BY OutFinite DEF Inv, Shape
<1>3. words' \in [0 .. Len - 1 -> SUBSET Bits] /\ DOMAIN words' = DOMAIN words
  BY <1>1, <1>2
<1>4. Len' = Len
  BY <1>3 DEF Len
<1>5. TypeOK' /\ Shape' /\ Control' /\ Ahead'
  BY <1>1, <1>3, <1>4 DEF Inv, TypeOK, Shape, Control, Ahead, Live, Len
<1>6. Behind'
  BY <1>1 DEF Inv, Behind
<1>7. Emptied'
  <2>1. ASSUME kind = "drain", NEW k \in DOMAIN words' PROVE words'[k] = {}
    BY <1>1, <1>2, <1>3, <2>1 DEF Inv, Emptied
  <2>2. ASSUME kind = "prim_drain" PROVE words' = words
    BY <1>1, <2>2
  <2> QED BY <1>1, <2>1, <2>2 DEF Inv, Emptied
<1>8. Searched' /\ Hinted'
  BY <1>1 DEF Inv, Searched, Hinted, Gone, Live
<1> QED BY <1>5, <1>6, <1>7, <1>8 DEF Inv

\* hash loads the next word and hands out, to the hasher, its bits.
LoadsNext ==
  /\ state = "feed" /\ word_idx \in DOMAIN words
  /\ out' = out \cup ItemsAt(word_idx, words[word_idx])
  /\ word_idx' = word_idx + 1
  /\ UNCHANGED <<kind, effective_len, words, current, state, hint, writes, stable, ever>>

LEMMA LoadsNextInv ==
  ASSUME Inv, LoadsNext
  PROVE  TypeOK' /\ Shape' /\ Control' /\ Ahead' /\ Behind' /\ Emptied' /\ Hinted'
<1>1. /\ UNCHANGED <<kind, effective_len, words, current, state, hint, writes, stable, ever>>
      /\ Len' = Len /\ state = "feed" /\ kind = "hash" /\ current = {} /\ hint = NoHint
      /\ word_idx \in DOMAIN words /\ word_idx' = word_idx + 1
      /\ out' = out \cup ItemsAt(word_idx, words[word_idx])
  BY DEF LoadsNext, Len, Inv, Searched
<1>2. /\ word_idx \in 0 .. Len /\ Len \in Nat /\ words \in [0 .. Len - 1 -> SUBSET Bits]
      /\ Cardinality(out) \in Nat
  BY OutFinite DEF Inv, Shape
<1> DEFINE k == word_idx
           items == ItemsAt(k, words[k])
<1>3. /\ out' = out \cup items /\ word_idx' = k + 1 /\ state' = state
      /\ k \in 0 .. Len - 1 /\ words[k] \in SUBSET Bits
  BY <1>1, <1>2
<1>4. ASSUME NEW y \in items
      PROVE  /\ y \in Nat /\ Word(y) = k /\ Bit(y) \in words[k]
             /\ y \notin out /\ y \in ever
  <2>1. PICK b \in words[k] : y = k * BITS_PER + b
    BY DEF ItemsAt
  <2>2. y \in Nat /\ Word(y) = k /\ Bit(y) = b
    BY <1>3, <2>1, JoinItem
  <2> QED BY <1>1, <1>2, <1>3, <2>1, <2>2 DEF Inv, Ahead, Behind
<1>5. ASSUME NEW y \in Nat, Word(y) = k, Bit(y) \in words[k] PROVE y \in items
  BY <1>5, SplitItem DEF ItemsAt
<1>6. /\ IsFiniteSet(items) /\ Cardinality(items) = Cardinality(words[k])
      /\ Cardinality(words[k]) \in Nat /\ Cardinality(words[k]) <= BITS_PER
  BY <1>3, ItemsAtCard, BitsFinite
<1> HIDE DEF items
<1>7. Cardinality(out') = Cardinality(out) + Cardinality(words[k])
  <2>1. items \cap out = {}
    BY <1>4
  <2> QED BY <1>3, <1>6, <2>1, OutGrows
<1>8. out' \subseteq 0 .. Len * BITS_PER - 1
  <2>1. ASSUME NEW y \in items PROVE y \in 0 .. Len * BITS_PER - 1
    <3>1. y \in Nat /\ y < Len * BITS_PER /\ Len * BITS_PER \in Nat
      BY <1>2, <1>3, <1>4, ItemBound, SliceIterAssumption
    <3> QED BY <3>1
  <2> QED BY <1>3, <2>1 DEF Inv, TypeOK, Len
<1>9. TypeOK'
  BY <1>1, <1>2, <1>3, <1>8 DEF Inv, TypeOK, Len
<1>10. Shape' /\ Control' /\ Emptied'
  BY <1>1, <1>2, <1>3 DEF Inv, Shape, Control, Emptied, Items, ItemsFrom, CopyKinds, SharedKinds
<1>11. Ahead'
  <2>1. ASSUME NEW x \in stable, Word(x) >= k + 1 PROVE Bit(x) \in words[Word(x)]
    <3>1. Word(x) >= k
      BY <1>3, <2>1, SplitItem DEF Inv, Shape
    <3> QED BY <1>1, <3>1 DEF Inv, Ahead
  <2> QED BY <1>1, <1>2, <1>3, <2>1 DEF Inv, Ahead
<1>12. Behind'
  <2>1. ASSUME NEW y \in stable, Word(y) < k + 1 PROVE y \in out'
    <3>1. y \in Nat /\ Word(y) \in Nat
      BY SplitItem DEF Inv, Shape
    <3>2. CASE Word(y) < k
      BY <1>1, <1>3, <3>2 DEF Inv, Behind, Refused
    <3>3. CASE Word(y) = k
      BY <1>1, <1>3, <1>5, <3>1, <3>3 DEF Inv, Ahead
    <3> QED BY <1>3, <2>1, <3>1, <3>2, <3>3
  <2>2. ASSUME NEW y \in out PROVE y \in ever /\ Word(y) < k + 1
    <3>1. y \in ever /\ Word(y) < k /\ y \in Nat /\ Word(y) \in Nat
      BY SplitItem DEF Inv, Behind, Shape
    <3> QED BY <1>3, <3>1
  <2>3. \A y \in out' : y \in ever /\ Word(y) < k + 1
    BY <1>3, <1>4, <2>2
  <2> QED BY <1>1, <1>3, <2>1, <2>3 DEF Behind
<1>13. Hinted'
  BY <1>1 DEF Hinted
<1> QED BY <1>9, <1>10, <1>11, <1>12, <1>13

\* The search of hash: a word that it leaves behind was zero when it saw it.
LEMMA RPositionInv ==
  ASSUME Inv, RPosition
  PROVE  Inv'
<1>1. /\ UNCHANGED <<kind, words, word_idx, current, out, hint, writes, stable, ever>>
      /\ Len' = Len /\ state = "rposition" /\ kind = "hash" /\ hint = NoHint
      /\ word_idx = 0 /\ effective_len \in 0 .. Len
  BY DEF RPosition, Histories, Len, Inv, TypeOK, Searched
<1>2. Len \in Nat /\ words \in [0 .. Len - 1 -> SUBSET Bits]
  BY DEF Inv, Shape
<1>3. /\ effective_len' \in 0 .. Len /\ state' \in {"rposition", "feed"}
  BY <1>1, <1>2 DEF RPosition
<1>4. TypeOK' /\ Shape' /\ Control' /\ Ahead' /\ Behind' /\ Hinted'
  BY <1>1, <1>3 DEF Inv, TypeOK, Shape, Control, Ahead, Behind, Refused, Hinted, Len
<1>5. Emptied'
  BY <1>1 DEF Emptied
<1>6. Searched'
  <2>1. CASE effective_len > 0 /\ words[effective_len - 1] = {}
    <3>1. effective_len' = effective_len - 1 /\ state' = state
      BY <2>1 DEF RPosition
    <3>2. ASSUME NEW x \in stable PROVE Word(x) < effective_len - 1
      <4>1. x \in Nat /\ Word(x) \in Nat /\ Word(x) < effective_len
        BY <1>1, SplitItem DEF Inv, Shape, Searched
      <4>2. Bit(x) \in words[Word(x)]
        BY <1>1, <4>1 DEF Inv, Ahead
      <4> QED BY <1>1, <2>1, <4>1, <4>2
    <3> QED BY <1>1, <3>1, <3>2 DEF Inv, Searched
  <2>2. CASE ~ (effective_len > 0 /\ words[effective_len - 1] = {})
    <3>1. effective_len' = effective_len /\ state' = "feed"
      BY <2>2 DEF RPosition
    <3>2. ASSUME effective_len > 0 PROVE \E x \in ever : Word(x) = effective_len - 1
      <4> DEFINE k == effective_len - 1
      <4>1. k \in 0 .. Len - 1 /\ k \in word_idx .. Len - 1
        BY <1>1, <1>2, <3>2
      <4>2. PICK b \in words[k] : TRUE
        BY <2>2, <3>2
      <4>3. b \in Bits
        BY <1>2, <4>1
      <4>4. Word(k * BITS_PER + b) = k
        BY <4>1, <4>3, JoinItem
      <4>5. k * BITS_PER + b \in ever
        BY <1>1, <4>1, <4>2 DEF Inv, Ahead
      <4> QED BY <4>4, <4>5
    <3> QED BY <1>1, <3>1, <3>2 DEF Inv, Searched
  <2> QED BY <2>1, <2>2
<1> QED BY <1>4, <1>5, <1>6 DEF Inv

\* The second loop of hash.
LEMMA FeedInv ==
  ASSUME Inv, Feed
  PROVE  Inv'
<1>1. /\ UNCHANGED <<kind, effective_len, words, current, hint, writes, stable, ever>>
      /\ Len' = Len /\ state = "feed" /\ kind = "hash" /\ current = {} /\ hint = NoHint
  BY DEF Feed, Histories, Len, Inv, Searched
<1>2. /\ word_idx \in 0 .. Len /\ Len \in Nat /\ words \in [0 .. Len - 1 -> SUBSET Bits]
      /\ word_idx <= effective_len /\ effective_len \in 0 .. Len
  BY <1>1, OutFinite DEF Inv, Shape, Searched, TypeOK, Len
<1>3. CASE word_idx < effective_len
  <2>1. LoadsNext
    BY <1>1, <1>2, <1>3 DEF Feed, Histories, LoadsNext
  <2>2. Searched'
    BY <1>1, <1>2, <1>3 DEF Feed, Inv, Searched
  <2> QED BY <2>1, <2>2, LoadsNextInv DEF Inv
<1>4. CASE ~ (word_idx < effective_len)
  <2>1. state' = "hashed" /\ UNCHANGED <<out, word_idx>> /\ word_idx = effective_len
    BY <1>2, <1>4 DEF Feed
  <2>2. TypeOK' /\ Shape' /\ Control' /\ Ahead' /\ Behind' /\ Hinted' /\ Searched'
    BY <1>1, <2>1 DEF Inv, TypeOK, Shape, Control, Ahead, Behind, Refused, Hinted, Searched
  <2>3. Emptied'
    BY <1>1 DEF Emptied
  <2> QED BY <2>2, <2>3 DEF Inv
<1> QED BY <1>3, <1>4

LEMMA WriteInv ==
  ASSUME Inv, Write
  PROVE  Inv'
<1>1. /\ kind \in CopyKinds \cup SharedKinds /\ writes < MaxWrites
      /\ state \notin {"dropped", "panicked", "folded", "hashed"} /\ writes' = writes + 1
      /\ UNCHANGED <<kind, effective_len, word_idx, current, out, state, hint>>
  BY DEF Write
<1>2. PICK k \in DOMAIN words, x \in Bits :
        words' = [words EXCEPT ![k] = IF x \in @ THEN @ \ {x} ELSE @ \cup {x}]
  BY DEF Write
<1>3. Len \in Nat /\ words \in [0 .. Len - 1 -> SUBSET Bits] /\ word_idx \in 0 .. Len
  BY OutFinite DEF Inv, Shape
<1>4. /\ words' \in [0 .. Len - 1 -> SUBSET Bits] /\ DOMAIN words' = DOMAIN words
      /\ \A l \in DOMAIN words : \A b \in words'[l] : b \in words[l] \/ (l = k /\ b = x)
  BY <1>2, <1>3
<1>5. Len' = Len
  BY <1>4 DEF Len
<1>6. \A y : y \in Items(words') <=>
        y \in Nat /\ Word(y) \in 0 .. Len - 1 /\ Bit(y) \in words'[Word(y)]
  BY <1>3, <1>4, ItemIff DEF Items
<1>7. kind # "drain"
  BY <1>1 DEF CopyKinds, SharedKinds
<1>8. TypeOK'
  BY <1>1, <1>4, <1>5, SliceIterAssumption DEF Inv, TypeOK, Len
<1>9. /\ stable' \subseteq stable /\ ever \subseteq ever' /\ stable' \subseteq ever'
      /\ \A y \in ever' : y \in ever \/ y \in Items(words')
      /\ kind \in SharedKinds => stable' \subseteq Items(words') /\ Items(words') \subseteq ever'
      /\ kind \notin SharedKinds => UNCHANGED <<stable, ever>>
  BY DEF Write, Histories, Inv, Shape
<1>10. Shape' /\ Control' /\ Searched'
  <2>1. \A y \in ever' : y \in Nat /\ Word(y) < Len
    BY <1>3, <1>6, <1>9 DEF Inv, Shape
  <2>2. Shape' /\ Control'
    BY <1>1, <1>3, <1>4, <1>5, <1>9, <2>1 DEF Inv, Shape, Control
  <2>3. Searched'
    BY <1>1, <1>9 DEF Inv, Searched
  <2> QED BY <2>2, <2>3
<1>11. Ahead'
  <2>1. CASE kind \in SharedKinds
    <3>1. \A y \in stable' : Bit(y) \in words'[Word(y)]
      BY <1>6, <1>9, <2>1
    <3>2. ASSUME NEW l \in 0 .. Len - 1, NEW b \in words'[l] PROVE l * BITS_PER + b \in ever'
      BY <1>4, <1>6, <1>9, <2>1, JoinItem
    <3> QED BY <1>1, <1>3, <1>5, <3>1, <3>2 DEF Ahead
  <2>2. CASE kind \in CopyKinds
    <3>1. \A y \in stable' : ~ (Word(y) >= 1)
      BY <1>9, <2>2, SplitItem DEF Inv, Shape, CopyKinds, SharedKinds
    <3> QED BY <1>1, <1>5, <2>2, <3>1 DEF Ahead, Inv, Shape
  <2> QED BY <1>1, <2>1, <2>2
<1>12. Behind'
  BY <1>1, <1>9 DEF Inv, Behind, Refused
<1>13. Emptied'
  <2>1. ASSUME kind = "prim_drain" PROVE Cardinality(Items(words')) <= writes + 1
    <3>1. /\ \A y : y \in Items(words) <=>
               y \in Nat /\ Word(y) \in 0 .. Len - 1 /\ Bit(y) \in words[Word(y)]
          /\ IsFiniteSet(Items(words)) /\ Cardinality(Items(words)) \in Nat
      BY <1>3, ItemIff DEF Items
    <3>2. Items(words') \subseteq Items(words) \cup {k * BITS_PER + x}
      <4>1. ASSUME NEW y \in Items(words'), y \notin Items(words) PROVE y = k * BITS_PER + x
        <5>1. y \in Nat /\ Word(y) = k /\ Bit(y) = x
          BY <1>3, <1>4, <1>6, <3>1, <4>1
        <5> QED BY <5>1, SplitItem
      <4> QED BY <4>1
    <3>3. /\ IsFiniteSet(Items(words) \cup {k * BITS_PER + x})
          /\ Cardinality(Items(words) \cup {k * BITS_PER + x}) <= Cardinality(Items(words)) + 1
      BY <3>1, FS_AddElement
    <3>4. /\ Cardinality(Items(words')) <= Cardinality(Items(words) \cup {k * BITS_PER + x})
          /\ IsFiniteSet(Items(words'))
      BY <3>2, <3>3, FS_Subset
    <3>5. /\ Cardinality(Items(words')) \in Nat
          /\ Cardinality(Items(words) \cup {k * BITS_PER + x}) \in Nat
      BY <3>3, <3>4, FS_CardinalityType
    <3>6. Cardinality(Items(words)) <= writes /\ writes \in Nat
      BY <2>1, SliceIterAssumption DEF Inv, Emptied, TypeOK
    <3> QED BY <3>1, <3>3, <3>4, <3>5, <3>6
  <2> QED BY <1>1, <1>7, <2>1 DEF Emptied
<1>14. Hinted'
  <2>1. LiveOnes' = LiveOnes /\ Unseen' = Unseen
    BY <1>1, <1>4 DEF LiveOnes, Unseen
  <2>2. ASSUME kind \in CopyKinds PROVE UnseenOnes' = UnseenOnes
    <3>1. word_idx = 1 /\ Len = 1
      BY <1>1, <2>2 DEF Inv, Shape
    <3>2. \A l \in 1 .. Len - 1 : words'[l] = words[l]
      BY <3>1
    <3>3. ItemsFrom(words', 1) = ItemsFrom(words, 1)
      BY <1>3, <1>4, <3>2, SameItems
    <3> QED BY <1>1, <3>1, <3>3 DEF UnseenOnes
  <2> QED BY <1>1, <2>1, <2>2 DEF Inv, Searched, Hinted, ExactLen, SharedKinds
<1> QED BY <1>8, <1>10, <1>11, <1>12, <1>13, <1>14 DEF Inv

LEMMA NextInv ==
  ASSUME Inv, [Next]_vars
  PROVE  Inv'
<1>1. CASE UNCHANGED vars
  <2>1. UNCHANGED <<kind, effective_len, words, word_idx, current, out, state, hint, writes, stable, ever>>
    BY <1>1 DEF vars
  <2>2. TypeOK' /\ Shape' /\ Control' /\ Ahead' /\ Behind' /\ Searched'
    BY <2>1 DEF Inv, TypeOK, Shape, Control, Ahead, Behind, Refused, Searched, Len
  <2>3. Emptied' /\ Hinted'
    BY <2>1 DEF Inv, Emptied, Hinted, ExactLen, LiveOnes, UnseenOnes, Unseen, Items, ItemsFrom
  <2> QED BY <2>2, <2>3 DEF Inv
<1> QED BY <1>1, YieldInv, UnheldInv, TakeWordInv, NoneInv, FoldInv, SizeHintInv, DropInv,
           RPositionInv, FeedInv, WriteInv DEF Next

-----------------------------------------------------------------------------
\* What the iterators have taken, handed out and hinted, for any words and writes.
THEOREM Invariant == Spec => []Inv
<1>1. Inv /\ [Next]_vars => Inv'
  BY NextInv
<1> QED BY <1>1, InitInv, PTL DEF Spec

\* word_idx stays in the slice, and a live word has a place.
THEOREM TypeCorrect == Spec => []TypeOK
<1>1. Inv => TypeOK
  BY DEF Inv
<1> QED BY <1>1, Invariant, PTL

\* What is out is all that has stayed before the iterator's place, and nothing
\* that never was.
THEOREM PositionCorrect == Spec => []Position
<1>1. ASSUME Inv PROVE Position
  <2> SUFFICES ASSUME state # "dropped" PROVE Position
    BY DEF Position
  <2>1. word_idx \in 0 .. Len /\ Len \in Nat /\ current \in SUBSET Bits
    BY <1>1, OutFinite DEF Inv, Shape, TypeOK
  <2>2. ASSUME NEW x \in ever
        PROVE  /\ x \in Nat /\ Word(x) \in Nat /\ Bit(x) \in Bits
               /\ x < word_idx * BITS_PER <=> Word(x) < word_idx
    <3>1. x \in Nat /\ word_idx \in Nat
      BY <1>1, <2>1 DEF Inv, Shape
    <3> QED BY <3>1, SplitItem, ItemBound
  <2>3. \A x \in ever : Walked(x) <=>
          /\ Word(x) < word_idx
          /\ Word(x) = word_idx - 1 => \A b \in current : Bit(x) < b
    BY <2>2 DEF Walked, Word, Bit
  <2>4. ASSUME NEW x \in stable, Walked(x), x \notin out PROVE x \in ever /\ Refused(x)
    <3>1. x \in ever /\ ~ (Word(x) = word_idx - 1 /\ Bit(x) \in current)
      BY <1>1, <2>1, <2>2, <2>3, <2>4 DEF Inv, Shape, Bits
    <3> QED BY <1>1, <2>3, <2>4, <3>1 DEF Inv, Behind
  <2>5. \A x \in out : x \in ever /\ Walked(x)
    BY <1>1, <2>3 DEF Inv, Behind
  <2>6. {n \in stable : Walked(n)} \ out \subseteq
          {n \in ever \ Convertible : state = "panicked" /\ \A m \in out : m < n}
    <3>1. ASSUME NEW n, n \in {m \in stable : Walked(m)} \ out
          PROVE  n \in ever \ Convertible /\ state = "panicked" /\ \A m \in out : m < n
      <4>1. n \in stable /\ Walked(n) /\ n \notin out
        BY <3>1
      <4> QED BY <2>4, <4>1 DEF Refused
    <3> QED BY <3>1, Zenon
  <2>7. out \subseteq {n \in ever : Walked(n)}
    BY <2>5
  <2>8. kind \notin SharedKinds => stable = ever
    BY <1>1 DEF Inv, Shape
  <2> QED BY <2>6, <2>7, <2>8 DEF Position
<1> QED BY <1>1, Invariant, PTL

\* A Drain empties the slice, dropped midway or at the end.
THEOREM DrainCorrect == Spec => []DrainEmpties
<1>1. ASSUME Inv PROVE DrainEmpties
  <2>1. \A x : x \in Items(words) <=>
          x \in Nat /\ Word(x) \in 0 .. Len - 1 /\ Bit(x) \in words[Word(x)]
    BY <1>1, ItemIff DEF Inv, Shape, Items
  <2>2. ASSUME kind = "drain", NEW x \in Items(words)
        PROVE  state # "dropped" /\ x \notin out
    <3>1. Word(x) \in DOMAIN words /\ words[Word(x)] # {}
      BY <1>1, <2>1 DEF Inv, Shape
    <3> QED BY <1>1, <2>2, <3>1 DEF Inv, Emptied, Behind
  <2> QED BY <1>1, <2>2 DEF DrainEmpties, Inv, Emptied
<1> QED BY <1>1, Invariant, PTL

\* A size_hint covers the items that come, and len counts them, whatever is written.
THEOREM HintCorrect == Spec => []HintHolds
<1>1. ASSUME Inv PROVE HintHolds
  <2> SUFFICES ASSUME state \in {"none", "folded"}, hint # NoHint PROVE HintHolds
    BY DEF HintHolds
  <2>1. /\ current = {} /\ word_idx = Len /\ Len \in Nat
        /\ words \in [0 .. Len - 1 -> SUBSET Bits]
    BY <1>1 DEF Inv, Control, Shape
  <2>2. LiveOnes = 0 /\ Unseen = 0
    BY <2>1, FS_EmptySet DEF LiveOnes, Unseen, Len
  <2>3. UnseenOnes = 0
    <3>1. ItemsFrom(words, Len) = {}
      BY <2>1, ItemIff
    <3> QED BY <2>1, <3>1, FS_EmptySet DEF UnseenOnes
  <2>4. Cardinality(out) \in Nat /\ Unseen * BITS_PER = 0
    BY <1>1, <2>2, OutFinite, SliceIterAssumption
  <2>5. state \notin Gone /\ kind # "hash" /\ kind \in Kinds
    BY <1>1 DEF Gone, Inv, Searched, TypeOK
  <2>6. kind \in {"words", "drain", "atomic"} \cup CopyKinds
    BY <2>5, SliceIterAssumption DEF SliceKinds
  <2>7. ExactLen = 0 /\ hint.since \in Nat
    BY <1>1, <2>2, <2>3 DEF ExactLen, Inv, Hinted
  <2>8. CASE kind = "atomic"
    BY <1>1, <2>2, <2>4, <2>5, <2>7, <2>8 DEF Inv, Hinted, HintHolds
  <2>9. CASE kind \in CopyKinds
    BY <1>1, <2>4, <2>5, <2>7, <2>9 DEF Inv, Hinted, HintHolds, CopyKinds
  <2>10. CASE kind \in {"words", "drain"}
    BY <1>1, <2>4, <2>5, <2>7, <2>10 DEF Inv, Hinted, HintHolds, CopyKinds
  <2> QED BY <2>6, <2>8, <2>9, <2>10
<1> QED BY <1>1, Invariant, PTL

\* hash misses nothing that was in the set all along and takes in nothing that
\* never was there; without writes the hasher is fed exactly the set, up to its
\* last word that is not zero, so sets with the same members hash alike.
THEOREM HashCorrect == Spec => []HashCanonical
<1>1. ASSUME Inv PROVE HashCanonical
  <2> SUFFICES ASSUME state = "hashed" PROVE HashCanonical
    BY DEF HashCanonical
  <2>1. kind = "hash" /\ current = {} /\ word_idx = effective_len /\ word_idx \in Nat
    BY <1>1, OutFinite DEF Inv, Searched
  <2>2. stable \subseteq out /\ out \subseteq ever
    BY <1>1, <2>1 DEF Inv, Searched, Behind, Refused
  <2>3. ASSUME stable = ever, word_idx > 0
        PROVE  \E n \in out : n \div BITS_PER = word_idx - 1
    BY <1>1, <2>1, <2>2, <2>3 DEF Inv, Searched, Word
  <2> QED BY <2>2, <2>3 DEF HashCanonical
<1> QED BY <1>1, Invariant, PTL

=============================================================================
