-------------------------- MODULE PlainSets_proofs --------------------------
(***************************************************************************)
(* Proofs about PlainSets, for any sets, word width and lengths: the loops *)
(* over words implement BoundedSet, the relations that compare words       *)
(* compare the sets, the counts and searches over words count and search   *)
(* the sets, and a number printed in digits reads back.                    *)
(***************************************************************************)
EXTENDS PlainSets, FiniteSetTheorems, WellFoundedInduction, TLAPS

-----------------------------------------------------------------------------
\* A nonempty set of naturals has a least member.
LEMMA LeastNat ==
  ASSUME NEW T, T \subseteq Nat, T # {}
  PROVE  \E m \in T : \A n \in T : m <= n
<1> DEFINE R == OpToRel(<, Nat)
<1>1. \A x, y \in Nat : <<x, y>> \in R <=> x < y
  BY DEF OpToRel
<1>2. IsWellFoundedOn(R, Nat)
  BY NatLessThanWellFounded
<1> HIDE DEF R
<1>3. \E x \in T : \A y \in T : ~ (<<y, x>> \in R)
  BY <1>2, WFMin
<1>4. PICK m \in T : \A n \in T : ~ (<<n, m>> \in R)
  BY <1>3
<1>5. ASSUME NEW n \in T PROVE m <= n
  <2>1. m \in Nat /\ n \in Nat
    OBVIOUS
  <2>2. ~ (n < m)
    BY <1>1, <1>4, <2>1
  <2> QED BY <2>1, <2>2
<1> QED BY <1>5

\* A sum over a finite domain is what any function says that satisfies the
\* equation by which it is computed, an element at a time.
LEMMA SumIs ==
  ASSUME NEW F, IsFiniteSet(DOMAIN F),
         NEW h, h = [T \in SUBSET DOMAIN F |->
                       IF T = {} THEN 0
                       ELSE F[CHOOSE x \in T : TRUE] + h[T \ {CHOOSE x \in T : TRUE}]]
  PROVE  SumFunction(F) = h[DOMAIN F]
<1> DEFINE D == DOMAIN F
           Sums(f) == f = [T \in SUBSET D |->
                             IF T = {} THEN 0
                             ELSE F[CHOOSE x \in T : TRUE] + f[T \ {CHOOSE x \in T : TRUE}]]
           sum == CHOOSE f : Sums(f)
           bad == {T \in SUBSET D : sum[T] # h[T]}
           sizes == {Cardinality(T) : T \in bad}
<1>1. SumFunction(F) = sum[D]
  BY DEF SumFunction, SumFunctionOnSet, FoldFunctionOnSet, MapThenFoldSet
<1>2. Sums(h) /\ Sums(sum)
  <2>1. Sums(h)
    OBVIOUS
  <2> HIDE DEF Sums
  <2> QED BY <2>1
<1>3. \A T \in SUBSET D : T # {} =>
        LET x == CHOOSE x \in T : TRUE IN
          /\ x \in T /\ T \ {x} \in SUBSET D
          /\ sum[T] = F[x] + sum[T \ {x}] /\ h[T] = F[x] + h[T \ {x}]
  <2> HIDE DEF sum
  <2> QED BY <1>2
<1>4. sum[{}] = 0 /\ h[{}] = 0
  <2> HIDE DEF sum
  <2> QED BY <1>2
<1> HIDE DEF Sums, sum
<1>5. \A T \in SUBSET D : IsFiniteSet(T) /\ Cardinality(T) \in Nat
  BY FS_Subset, FS_CardinalityType
<1>6. ASSUME bad # {} PROVE FALSE
  <2>1. sizes \subseteq Nat /\ sizes # {}
    BY <1>5, <1>6
  <2>2. PICK m \in sizes : \A n \in sizes : m <= n
    <3> HIDE DEF sizes
    <3> QED BY <2>1, LeastNat
  <2>3. PICK T \in bad : m = Cardinality(T)
    BY <2>2
  <2>4. T \in SUBSET D /\ T # {} /\ IsFiniteSet(T) /\ Cardinality(T) \in Nat
    BY <1>4, <1>5, <2>3
  <2>5. PICK x \in T : T \ {x} \in SUBSET D /\ sum[T] = F[x] + sum[T \ {x}] /\ h[T] = F[x] + h[T \ {x}]
    BY <1>3, <2>4
  <2>6. Cardinality(T \ {x}) = Cardinality(T) - 1
    BY <2>4, <2>5, FS_RemoveElement
  <2>7. T \ {x} \notin bad
    <3>1. \A U \in bad : m <= Cardinality(U)
      BY <2>2
    <3> HIDE DEF bad
    <3> QED BY <2>3, <2>4, <2>6, <3>1
  <2> QED BY <2>3, <2>5, <2>7
<1> QED BY <1>1, <1>6

\* index_of splits an index into a word and a bit of it.
LEMMA SplitIndex ==
  ASSUME NEW x \in Nat
  PROVE  Seg(x) \in Nat /\ Mask(x) \in Bits /\ x = IdxOf(Seg(x), Mask(x))
  BY SliceAssumption DEF Seg, Mask, IdxOf, Bits

LEMMA JoinIndex ==
  ASSUME NEW j \in Nat, NEW b \in Bits
  PROVE  IdxOf(j, b) \in Nat /\ Seg(IdxOf(j, b)) = j /\ Mask(IdxOf(j, b)) = b
  BY SliceAssumption DEF Seg, Mask, IdxOf, Bits

\* An index below a number of words lies in one of them, and conversely.
LEMMA IndexBound ==
  ASSUME NEW x \in Nat, NEW n \in Nat
  PROVE  x < n * BITS_PER <=> Seg(x) < n
  BY SliceAssumption, SplitIndex DEF Seg, Mask, IdxOf, Bits

LEMMA Products ==
  ASSUME NEW m \in Nat, NEW n \in Nat
  PROVE  /\ n * BITS_PER \in Nat
         /\ m <= n => m * BITS_PER <= n * BITS_PER
         /\ m * BITS_PER = n * BITS_PER => m = n
<1>1. ASSUME m <= n PROVE m * BITS_PER <= n * BITS_PER
  <2>1. PICK d \in Nat : n = m + d
    BY <1>1
  <2>2. n * BITS_PER = m * BITS_PER + d * BITS_PER /\ d * BITS_PER \in Nat /\ m * BITS_PER \in Nat
    BY <2>1, SliceAssumption
  <2> QED BY <2>2
<1>2. ASSUME m < n PROVE m * BITS_PER < n * BITS_PER
  BY <1>2, IndexBound, SliceAssumption, SMT
<1> QED BY <1>1, SliceAssumption

\* The words of a set: their number, and what they say of an index.
LEMMA Shape ==
  ASSUME NEW n \in Nat, NEW a \in Words(n)
  PROVE  /\ DOMAIN a = 0 .. n - 1 /\ NumWords(a) = n
         /\ Capacity(a) = n * BITS_PER /\ Capacity(a) \in Nat
         /\ \A k \in DOMAIN a : a[k] \in SUBSET Bits
<1>1. DOMAIN a = 0 .. n - 1 /\ \A k \in DOMAIN a : a[k] \in SUBSET Bits
  BY DEF Words
<1>2. Cardinality(0 .. n - 1) = n
  BY FS_Interval
<1> QED BY <1>1, <1>2, Products DEF NumWords, Capacity

LEMMA MemberIff ==
  ASSUME NEW n \in Nat, NEW a \in Words(n), NEW x
  PROVE  x \in Members(a) <=> x \in Nat /\ Seg(x) \in 0 .. n - 1 /\ Mask(x) \in a[Seg(x)]
<1>1. Capacity(a) = n * BITS_PER /\ Capacity(a) \in Nat
  BY Shape
<1>2. x \in 0 .. Capacity(a) - 1 <=> x \in Nat /\ Seg(x) \in 0 .. n - 1
  BY <1>1, IndexBound, SplitIndex
<1> QED BY <1>2 DEF Members

\* Indices are ordered by word first, by bit within a word.
LEMMA IndexOrder ==
  ASSUME NEW x \in Nat, NEW y \in Nat
  PROVE  /\ Seg(x) < Seg(y) => x < y
         /\ Seg(x) = Seg(y) => (x <= y <=> Mask(x) <= Mask(y))
<1>1. ASSUME Seg(x) < Seg(y) PROVE x < y
  <2>1. Seg(x) \in Nat /\ Seg(y) \in Nat /\ Seg(x) < Seg(x) + 1
    BY SplitIndex
  <2>2. x < (Seg(x) + 1) * BITS_PER
    BY <2>1, IndexBound
  <2>3. ~ (y < (Seg(x) + 1) * BITS_PER)
    BY <1>1, <2>1, IndexBound
  <2>4. (Seg(x) + 1) * BITS_PER \in Nat
    BY <2>1, Products
  <2> QED BY <2>2, <2>3, <2>4
<1>2. ASSUME Seg(x) = Seg(y) PROVE x <= y <=> Mask(x) <= Mask(y)
  <2> DEFINE k == Seg(y) * BITS_PER
  <2>1. k \in Int /\ x = k + Mask(x) /\ y = k + Mask(y)
    BY <1>2, SplitIndex, SliceAssumption DEF IdxOf
  <2>2. Mask(x) \in Int /\ Mask(y) \in Int
    BY SplitIndex, SliceAssumption DEF Bits
  <2> HIDE DEF k
  <2> QED BY <2>1, <2>2
<1> QED BY <1>1, <1>2

\* Two sets of words with the same number have the members that their words say.
LEMMA ZeroMembers ==
  ASSUME NEW n \in Nat
  PROVE  Zero(n) \in Words(n) /\ Members(Zero(n)) = {}
<1>1. Zero(n) \in Words(n)
  BY DEF Zero, Words
<1>2. \A k \in 0 .. n - 1 : Zero(n)[k] = {}
  BY DEF Zero
<1> QED BY <1>1, <1>2, MemberIff

\* A word put in place of another changes the indices of that word only.
LEMMA WordMembers ==
  ASSUME NEW n \in Nat, NEW a \in Words(n), NEW k \in 0 .. n - 1, NEW word \in SUBSET Bits,
         NEW c, c = [a EXCEPT ![k] = word]
  PROVE  /\ c \in Words(n)
         /\ \A x : x \in Members(c) <=>
              x \in Nat /\ IF Seg(x) = k THEN Mask(x) \in word ELSE x \in Members(a)
<1>1. c \in Words(n)
  BY DEF Words
<1>2. \A j \in 0 .. n - 1 : c[j] = IF j = k THEN word ELSE a[j]
  BY DEF Words
<1>3. ASSUME NEW x
      PROVE  x \in Members(c) <=>
              x \in Nat /\ IF Seg(x) = k THEN Mask(x) \in word ELSE x \in Members(a)
  <2>1. x \in Members(c) <=> x \in Nat /\ Seg(x) \in 0 .. n - 1 /\ Mask(x) \in c[Seg(x)]
    BY <1>1, MemberIff
  <2>2. x \in Members(a) <=> x \in Nat /\ Seg(x) \in 0 .. n - 1 /\ Mask(x) \in a[Seg(x)]
    BY MemberIff
  <2> QED BY <1>2, <2>1, <2>2
<1> QED BY <1>1, <1>3

\* The bit of an index, set and cleared.
LEMMA BitMember ==
  ASSUME NEW n \in Nat, NEW a \in Words(n), NEW x \in Nat, x < n * BITS_PER
  PROVE  /\ Mask(x) \in a[Seg(x)] <=> x \in Members(a)
         /\ Seg(x) \in 0 .. n - 1 /\ Mask(x) \in Bits /\ a[Seg(x)] \in SUBSET Bits
         /\ \A y \in Nat : Seg(y) = Seg(x) /\ Mask(y) = Mask(x) => y = x
<1>1. Seg(x) \in 0 .. n - 1 /\ Mask(x) \in Bits
  BY IndexBound, SplitIndex
<1>2. a[Seg(x)] \in SUBSET Bits
  BY <1>1, Shape
<1>3. Mask(x) \in a[Seg(x)] <=> x \in Members(a)
  BY <1>1, MemberIff
<1>4. ASSUME NEW y \in Nat, Seg(y) = Seg(x), Mask(y) = Mask(x) PROVE y = x
  <2>1. y = IdxOf(Seg(y), Mask(y)) /\ x = IdxOf(Seg(x), Mask(x))
    BY SplitIndex
  <2> QED BY <1>4, <2>1
<1> QED BY <1>1, <1>2, <1>3, <1>4

LEMMA SetMembers ==
  ASSUME NEW n \in Nat, NEW a \in Words(n), NEW x \in Nat, x < n * BITS_PER,
         NEW c, c = [a EXCEPT ![Seg(x)] = a[Seg(x)] \cup {Mask(x)}]
  PROVE  c \in Words(n) /\ Members(c) = Members(a) \cup {x}
<1>1. /\ Seg(x) \in 0 .. n - 1
      /\ a[Seg(x)] \cup {Mask(x)} \in SUBSET Bits
      /\ \A y \in Nat : Seg(y) = Seg(x) /\ Mask(y) = Mask(x) => y = x
  BY BitMember
<1>2. \A y : y \in Members(a) <=> y \in Nat /\ Seg(y) \in 0 .. n - 1 /\ Mask(y) \in a[Seg(y)]
  BY MemberIff
<1>3. /\ c \in Words(n)
      /\ \A y : y \in Members(c) <=>
           y \in Nat /\ IF Seg(y) = Seg(x) THEN Mask(y) \in a[Seg(x)] \cup {Mask(x)}
                                        ELSE y \in Members(a)
  <2> DEFINE k == Seg(x)
             word == a[Seg(x)] \cup {Mask(x)}
  <2>1. k \in 0 .. n - 1 /\ word \in SUBSET Bits /\ c = [a EXCEPT ![k] = word]
    BY <1>1
  <2> HIDE DEF k, word
  <2>2. c \in Words(n)
    BY <2>1, WordMembers
  <2>3. \A y : y \in Members(c) <=>
          y \in Nat /\ IF Seg(y) = k THEN Mask(y) \in word ELSE y \in Members(a)
    BY <2>1, WordMembers
  <2> QED BY <2>2, <2>3 DEF k, word
<1>4. ASSUME NEW y PROVE y \in Members(c) <=> y \in Members(a) \cup {x}
  <2>1. CASE y \in Nat /\ Seg(y) = Seg(x)
    <3>1. Mask(y) = Mask(x) <=> y = x
      BY <1>1, <2>1
    <3> QED BY <1>1, <1>2, <1>3, <2>1, <3>1
  <2>2. CASE ~ (y \in Nat /\ Seg(y) = Seg(x))
    <3>1. y # x
      BY <2>2
    <3> QED BY <1>2, <1>3, <2>2, <3>1
  <2> QED BY <2>1, <2>2
<1> QED BY <1>3, <1>4

LEMMA UnsetMembers ==
  ASSUME NEW n \in Nat, NEW a \in Words(n), NEW x \in Nat, x < n * BITS_PER,
         NEW c, c = [a EXCEPT ![Seg(x)] = a[Seg(x)] \ {Mask(x)}]
  PROVE  c \in Words(n) /\ Members(c) = Members(a) \ {x}
<1>1. /\ Seg(x) \in 0 .. n - 1
      /\ a[Seg(x)] \ {Mask(x)} \in SUBSET Bits
      /\ \A y \in Nat : Seg(y) = Seg(x) /\ Mask(y) = Mask(x) => y = x
  BY BitMember
<1>2. \A y : y \in Members(a) <=> y \in Nat /\ Seg(y) \in 0 .. n - 1 /\ Mask(y) \in a[Seg(y)]
  BY MemberIff
<1>3. /\ c \in Words(n)
      /\ \A y : y \in Members(c) <=>
           y \in Nat /\ IF Seg(y) = Seg(x) THEN Mask(y) \in a[Seg(x)] \ {Mask(x)}
                                        ELSE y \in Members(a)
  <2> DEFINE k == Seg(x)
             word == a[Seg(x)] \ {Mask(x)}
  <2>1. k \in 0 .. n - 1 /\ word \in SUBSET Bits /\ c = [a EXCEPT ![k] = word]
    BY <1>1
  <2> HIDE DEF k, word
  <2>2. c \in Words(n)
    BY <2>1, WordMembers
  <2>3. \A y : y \in Members(c) <=>
          y \in Nat /\ IF Seg(y) = k THEN Mask(y) \in word ELSE y \in Members(a)
    BY <2>1, WordMembers
  <2> QED BY <2>2, <2>3 DEF k, word
<1>4. ASSUME NEW y PROVE y \in Members(c) <=> y \in Members(a) \ {x}
  <2>1. CASE y \in Nat /\ Seg(y) = Seg(x)
    <3>1. Mask(y) = Mask(x) <=> y = x
      BY <1>1, <2>1
    <3> QED BY <1>1, <1>2, <1>3, <2>1, <3>1
  <2>2. CASE ~ (y \in Nat /\ Seg(y) = Seg(x))
    <3>1. y # x
      BY <2>2
    <3> QED BY <1>2, <1>3, <2>2, <3>1
  <2> QED BY <2>1, <2>2
<1> QED BY <1>3, <1>4

-----------------------------------------------------------------------------
\* The loops over the words of two sets, of any two lengths.
LEMMA UnionMembers ==
  ASSUME NEW n \in Nat, NEW a \in Words(n), NEW m \in Nat, NEW b \in Words(m)
  PROVE  /\ UnionFrom(a, b) \in Words(n)
         /\ Members(UnionFrom(a, b)) = (Members(a) \cup Members(b)) \cap (0 .. n * BITS_PER - 1)
<1> DEFINE c == UnionFrom(a, b)
<1>1. /\ DOMAIN a = 0 .. n - 1 /\ DOMAIN b = 0 .. m - 1
      /\ \A k \in 0 .. n - 1 : a[k] \in SUBSET Bits
  BY Shape
<1>2. /\ c \in Words(n)
      /\ \A k \in 0 .. n - 1 : c[k] = IF k \in 0 .. m - 1 THEN a[k] \cup b[k] ELSE a[k]
  BY <1>1, Shape DEF UnionFrom, Zip, OrWord, Words
<1>3. \A x : x \in 0 .. n * BITS_PER - 1 <=> x \in Nat /\ Seg(x) \in 0 .. n - 1
  BY IndexBound, SplitIndex, Products
<1>4. \A x : /\ x \in Members(a) <=> x \in Nat /\ Seg(x) \in 0 .. n - 1 /\ Mask(x) \in a[Seg(x)]
             /\ x \in Members(b) <=> x \in Nat /\ Seg(x) \in 0 .. m - 1 /\ Mask(x) \in b[Seg(x)]
  BY MemberIff
<1> HIDE DEF c
<1>5. \A x : x \in Members(c) <=> x \in Nat /\ Seg(x) \in 0 .. n - 1 /\ Mask(x) \in c[Seg(x)]
  BY <1>2, MemberIff
<1>6. \A x : x \in Members(c) <=> x \in (Members(a) \cup Members(b)) \cap (0 .. n * BITS_PER - 1)
  BY <1>2, <1>3, <1>4, <1>5
<1>7. Members(c) = (Members(a) \cup Members(b)) \cap (0 .. n * BITS_PER - 1)
  BY <1>6
<1> QED BY <1>2, <1>7 DEF c

LEMMA IntersectMembers ==
  ASSUME NEW n \in Nat, NEW a \in Words(n), NEW m \in Nat, NEW b \in Words(m)
  PROVE  /\ IntersectFrom(a, b) \in Words(n)
         /\ Members(IntersectFrom(a, b)) = Members(a) \cap Members(b)
<1> DEFINE c == IntersectFrom(a, b)
<1>1. /\ DOMAIN a = 0 .. n - 1 /\ DOMAIN b = 0 .. m - 1
      /\ \A k \in 0 .. n - 1 : a[k] \in SUBSET Bits
  BY Shape
<1>2. /\ c \in Words(n)
      /\ \A k \in 0 .. n - 1 : c[k] = IF k \in 0 .. m - 1 THEN a[k] \cap b[k] ELSE {}
  BY <1>1, Shape DEF IntersectFrom, ZeroPast, Zip, AndWord, Words
<1>4. \A x : /\ x \in Members(a) <=> x \in Nat /\ Seg(x) \in 0 .. n - 1 /\ Mask(x) \in a[Seg(x)]
             /\ x \in Members(b) <=> x \in Nat /\ Seg(x) \in 0 .. m - 1 /\ Mask(x) \in b[Seg(x)]
  BY MemberIff
<1> HIDE DEF c
<1>5. \A x : x \in Members(c) <=> x \in Nat /\ Seg(x) \in 0 .. n - 1 /\ Mask(x) \in c[Seg(x)]
  BY <1>2, MemberIff
<1>6. \A x : x \in Members(c) <=> x \in Members(a) \cap Members(b)
  BY <1>2, <1>4, <1>5
<1>7. Members(c) = Members(a) \cap Members(b)
  BY <1>6
<1> QED BY <1>2, <1>7 DEF c

LEMMA DifferenceMembers ==
  ASSUME NEW n \in Nat, NEW a \in Words(n), NEW m \in Nat, NEW b \in Words(m)
  PROVE  /\ DifferenceFrom(a, b) \in Words(n)
         /\ Members(DifferenceFrom(a, b)) = Members(a) \ Members(b)
<1> DEFINE c == DifferenceFrom(a, b)
<1>1. /\ DOMAIN a = 0 .. n - 1 /\ DOMAIN b = 0 .. m - 1
      /\ \A k \in 0 .. n - 1 : a[k] \in SUBSET Bits
  BY Shape
<1>2. /\ c \in Words(n)
      /\ \A k \in 0 .. n - 1 : c[k] = IF k \in 0 .. m - 1 THEN a[k] \ b[k] ELSE a[k]
  BY <1>1, Shape DEF DifferenceFrom, Zip, SubWord, Words
<1>4. \A x : /\ x \in Members(a) <=> x \in Nat /\ Seg(x) \in 0 .. n - 1 /\ Mask(x) \in a[Seg(x)]
             /\ x \in Members(b) <=> x \in Nat /\ Seg(x) \in 0 .. m - 1 /\ Mask(x) \in b[Seg(x)]
  BY MemberIff
<1> HIDE DEF c
<1>5. \A x : x \in Members(c) <=> x \in Nat /\ Seg(x) \in 0 .. n - 1 /\ Mask(x) \in c[Seg(x)]
  BY <1>2, MemberIff
<1>6. \A x : x \in Members(c) <=> x \in Members(a) \ Members(b)
  BY <1>2, <1>4, <1>5
<1>7. Members(c) = Members(a) \ Members(b)
  BY <1>6
<1> QED BY <1>2, <1>7 DEF c

LEMMA SymmetricMembers ==
  ASSUME NEW n \in Nat, NEW a \in Words(n), NEW m \in Nat, NEW b \in Words(m)
  PROVE  /\ SymmetricDifferenceFrom(a, b) \in Words(n)
         /\ Members(SymmetricDifferenceFrom(a, b)) =
              ((Members(a) \ Members(b)) \cup (Members(b) \ Members(a))) \cap (0 .. n * BITS_PER - 1)
<1> DEFINE c == SymmetricDifferenceFrom(a, b)
<1>1. /\ DOMAIN a = 0 .. n - 1 /\ DOMAIN b = 0 .. m - 1
      /\ \A k \in 0 .. n - 1 : a[k] \in SUBSET Bits
  BY Shape
<1>2. /\ c \in Words(n)
      /\ \A k \in 0 .. n - 1 : c[k] = IF k \in 0 .. m - 1 THEN (a[k] \ b[k]) \cup (b[k] \ a[k]) ELSE a[k]
  BY <1>1, Shape DEF SymmetricDifferenceFrom, Zip, XorWord, Words
<1>3. \A x : x \in 0 .. n * BITS_PER - 1 <=> x \in Nat /\ Seg(x) \in 0 .. n - 1
  BY IndexBound, SplitIndex, Products
<1>4. \A x : /\ x \in Members(a) <=> x \in Nat /\ Seg(x) \in 0 .. n - 1 /\ Mask(x) \in a[Seg(x)]
             /\ x \in Members(b) <=> x \in Nat /\ Seg(x) \in 0 .. m - 1 /\ Mask(x) \in b[Seg(x)]
  BY MemberIff
<1> HIDE DEF c
<1>5. \A x : x \in Members(c) <=> x \in Nat /\ Seg(x) \in 0 .. n - 1 /\ Mask(x) \in c[Seg(x)]
  BY <1>2, MemberIff
<1>6. \A x : x \in Members(c) <=>
               x \in ((Members(a) \ Members(b)) \cup (Members(b) \ Members(a))) \cap (0 .. n * BITS_PER - 1)
  BY <1>2, <1>3, <1>4, <1>5
<1>7. Members(c) = ((Members(a) \ Members(b)) \cup (Members(b) \ Members(a))) \cap (0 .. n * BITS_PER - 1)
  BY <1>6
<1> QED BY <1>2, <1>7 DEF c

\* The members of a set are below its capacity, and so are those of a shorter one.
LEMMA MembersBelow ==
  ASSUME NEW n \in Nat, NEW a \in Words(n), NEW m \in Nat, n <= m
  PROVE  Members(a) \subseteq 0 .. m * BITS_PER - 1 /\ Members(a) \in SUBSET Nat
<1>1. Capacity(a) = n * BITS_PER /\ n * BITS_PER <= m * BITS_PER
      /\ n * BITS_PER \in Nat /\ m * BITS_PER \in Nat
  BY Shape, Products
<1> QED BY <1>1 DEF Members

\* By value, the longer operand is kept.
LEMMA OperatorMembers ==
  ASSUME NEW n \in Nat, NEW a \in Words(n), NEW m \in Nat, NEW b \in Words(m),
         NEW l \in {n, m}, n <= l, m <= l
  PROVE  /\ BitOr(a, b) \in Words(l)
         /\ Members(BitOr(a, b)) = Members(a) \cup Members(b)
         /\ BitXor(a, b) \in Words(l)
         /\ Members(BitXor(a, b)) = (Members(a) \ Members(b)) \cup (Members(b) \ Members(a))
<1>1. NumWords(a) = n /\ NumWords(b) = m
  BY Shape
<1>2. Members(a) \cup Members(b) \subseteq 0 .. l * BITS_PER - 1
  BY MembersBelow
<1>3. CASE n >= m
  <2>1. BitOr(a, b) = UnionFrom(a, b) /\ BitXor(a, b) = SymmetricDifferenceFrom(a, b)
    BY <1>1, <1>3 DEF BitOr, BitXor, UnionFrom, SymmetricDifferenceFrom
  <2>2. /\ UnionFrom(a, b) \in Words(n)
        /\ Members(UnionFrom(a, b)) = (Members(a) \cup Members(b)) \cap (0 .. n * BITS_PER - 1)
    BY UnionMembers
  <2>3. /\ SymmetricDifferenceFrom(a, b) \in Words(n)
        /\ Members(SymmetricDifferenceFrom(a, b)) =
             ((Members(a) \ Members(b)) \cup (Members(b) \ Members(a))) \cap (0 .. n * BITS_PER - 1)
    BY SymmetricMembers
  <2>4. l = n
    BY <1>3
  <2> QED BY <1>2, <2>1, <2>2, <2>3, <2>4
<1>4. CASE ~ (n >= m)
  <2>1. BitOr(a, b) = UnionFrom(b, a) /\ BitXor(a, b) = SymmetricDifferenceFrom(b, a)
    BY <1>1, <1>4 DEF BitOr, BitXor, UnionFrom, SymmetricDifferenceFrom
  <2>2. /\ UnionFrom(b, a) \in Words(m)
        /\ Members(UnionFrom(b, a)) = (Members(b) \cup Members(a)) \cap (0 .. m * BITS_PER - 1)
    BY UnionMembers
  <2>3. /\ SymmetricDifferenceFrom(b, a) \in Words(m)
        /\ Members(SymmetricDifferenceFrom(b, a)) =
             ((Members(b) \ Members(a)) \cup (Members(a) \ Members(b))) \cap (0 .. m * BITS_PER - 1)
    BY SymmetricMembers
  <2>4. l = m
    BY <1>4
  <2> QED BY <1>2, <2>1, <2>2, <2>3, <2>4
<1> QED BY <1>3, <1>4

\* Complement.
LEMMA NotMembers ==
  ASSUME NEW n \in Nat, NEW a \in Words(n)
  PROVE  Not(a) \in Words(n) /\ Members(Not(a)) = 0 .. n * BITS_PER - 1 \ Members(a)
<1>1. DOMAIN a = 0 .. n - 1 /\ \A k \in 0 .. n - 1 : a[k] \in SUBSET Bits
  BY Shape
<1>2. \A x : x \in 0 .. n * BITS_PER - 1 <=> x \in Nat /\ Seg(x) \in 0 .. n - 1
  BY IndexBound, SplitIndex, Products
<1>3. \A x : x \in Members(a) <=> x \in Nat /\ Seg(x) \in 0 .. n - 1 /\ Mask(x) \in a[Seg(x)]
  BY MemberIff
<1>4. Not(a) \in Words(n) /\ \A k \in 0 .. n - 1 : Not(a)[k] = Bits \ a[k]
  BY <1>1 DEF Not, Words
<1>5. \A x : x \in Members(Not(a)) <=> x \in Nat /\ Seg(x) \in 0 .. n - 1 /\ Mask(x) \in Not(a)[Seg(x)]
  BY <1>4, MemberIff
<1>6. \A x : x \in Members(Not(a)) <=> x \in 0 .. n * BITS_PER - 1 \ Members(a)
  BY <1>2, <1>3, <1>4, <1>5, SplitIndex
<1> QED BY <1>4, <1>6

\* What retain keeps.
LEMMA KeptMembers ==
  ASSUME NEW n \in Nat, NEW a \in Words(n), NEW kept \in SUBSET Members(a), NEW c \in Words(n),
         \A k \in 0 .. n - 1 : \A b : b \in c[k] <=> b \in a[k] /\ IdxOf(k, b) \in kept
  PROVE  Members(c) = kept
<1>1. \A x : x \in Members(a) <=> x \in Nat /\ Seg(x) \in 0 .. n - 1 /\ Mask(x) \in a[Seg(x)]
  BY MemberIff
<1>2. \A x : x \in Members(c) <=> x \in Nat /\ Seg(x) \in 0 .. n - 1 /\ Mask(x) \in c[Seg(x)]
  BY MemberIff
<1>3. \A x : x \in Members(c) <=> x \in kept
  BY <1>1, <1>2, SplitIndex
<1> QED BY <1>3

-----------------------------------------------------------------------------
\* The sets of a program.

\* The answers that TypeOK allows.
Fine == ret'.panic \in BOOLEAN /\ ret'.ids \subseteq 0 .. MaxLen * BITS_PER - 1

LEMMA SetWords ==
  ASSUME TypeOK, NEW r \in Names
  PROVE  \E n \in 0 .. MaxLen :
           /\ store[r] \in Words(n) /\ Words(n) \subseteq Stores(kind[r])
           /\ Is(r, "array") => n = MaxLen
           /\ Is(r, "prim") => n = 1
<1>1. /\ kind[r] \in {"boxed", "array", "prim"} /\ store[r] \in Stores(kind[r])
      /\ MaxLen \in Nat \ {0}
  BY SliceAssumption, ProgramAssumption DEF TypeOK
<1>2. CASE kind[r] = "boxed"
  <2>1. PICK n \in 0 .. MaxLen : store[r] \in Words(n)
    BY <1>1, <1>2 DEF Stores, BoxedStores
  <2>2. Words(n) \subseteq Stores(kind[r])
    BY <1>2 DEF Stores, BoxedStores
  <2> QED BY <1>2, <2>1, <2>2 DEF Is
<1>3. CASE kind[r] = "array"
  <2>1. store[r] \in Words(MaxLen) /\ Words(MaxLen) \subseteq Stores(kind[r]) /\ MaxLen \in 0 .. MaxLen
    BY <1>1, <1>3 DEF Stores, ArrayStores
  <2> QED BY <1>3, <2>1 DEF Is
<1>4. CASE kind[r] = "prim"
  <2>1. store[r] \in Words(1) /\ Words(1) \subseteq Stores(kind[r]) /\ 1 \in 0 .. MaxLen
    BY <1>1, <1>4 DEF Stores, PrimStores
  <2> QED BY <1>4, <2>1 DEF Is
<1> QED BY <1>1, <1>2, <1>3, <1>4

\* A step that gives one set new words.
LEMMA PutStep ==
  ASSUME TypeOK, NEW r \in Names, NEW n \in 0 .. MaxLen, NEW a \in Words(n),
         Words(n) \subseteq Stores(kind[r]), Put(r, a), UNCHANGED kind, Fine
  PROVE  TypeOK' /\ Bounded!Become(r, Members(a), n * BITS_PER)
<1>1. DOMAIN store = Names /\ store' = [store EXCEPT ![r] = a]
  BY DEF TypeOK, Put
<1>2. DOMAIN store' = Names /\ store'[r] = a /\ \A q \in Names : q # r => store'[q] = store[q]
  BY <1>1
<1>3. TypeOK'
  <2>1. \A q \in Names : store'[q] \in Stores(kind[q])
    BY <1>2 DEF TypeOK
  <2> QED BY <1>2, <2>1 DEF TypeOK, Fine, Stores, BoxedStores, ArrayStores, PrimStores
<1>4. Capacity(a) = n * BITS_PER
  BY Shape
<1>5. Bounded!Become(r, Members(a), n * BITS_PER)
  BY <1>2, <1>4 DEF Bounded!Become
<1> QED BY <1>3, <1>5

\* A step that gives one set as many words as it had.
LEMMA ChangeStep ==
  ASSUME TypeOK, NEW r \in Names, NEW n \in 0 .. MaxLen, NEW a \in Words(n),
         store[r] \in Words(n), Words(n) \subseteq Stores(kind[r]),
         Put(r, a), UNCHANGED kind, Fine
  PROVE  TypeOK' /\ Bounded!Change(r, Members(a))
<1>1. TypeOK' /\ Bounded!Become(r, Members(a), n * BITS_PER)
  BY PutStep
<1>2. Capacity(store[r]) = n * BITS_PER
  BY Shape
<1> QED BY <1>1, <1>2 DEF Bounded!Change

\* A step that changes no set.
LEMMA SameStep ==
  ASSUME TypeOK, UNCHANGED <<store, kind>>, Fine
  PROVE  /\ TypeOK'
         /\ UNCHANGED <<[q \in Names |-> Members(store[q])], [q \in Names |-> Capacity(store[q])]>>
         /\ \A r \in Names : Bounded!Change(r, Members(store[r]))
<1>1. TypeOK'
  BY DEF TypeOK, Fine, Stores, BoxedStores, ArrayStores, PrimStores
<1>2. UNCHANGED <<[q \in Names |-> Members(store[q])], [q \in Names |-> Capacity(store[q])]>>
  OBVIOUS
<1> QED BY <1>1, <1>2 DEF Bounded!Change, Bounded!Become

\* A set as the abstraction sees it.
LEMMA View ==
  ASSUME TypeOK, NEW r \in Names, NEW n \in 0 .. MaxLen, store[r] \in Words(n)
  PROVE  /\ Capacity(store[r]) = n * BITS_PER /\ n * BITS_PER \in Nat
         /\ Bounded!Below(r) = 0 .. n * BITS_PER - 1
         /\ Members(store[r]) \subseteq 0 .. n * BITS_PER - 1
         /\ n * BITS_PER - 1 <= MaxLen * BITS_PER - 1
         /\ 0 .. n * BITS_PER - 1 \subseteq 0 .. MaxLen * BITS_PER - 1
         /\ MaxLen \in Nat /\ MaxLen * BITS_PER \in Nat
<1>1. Capacity(store[r]) = n * BITS_PER /\ n * BITS_PER \in Nat
  BY Shape
<1>2. MaxLen \in Nat /\ MaxLen * BITS_PER \in Nat /\ n * BITS_PER <= MaxLen * BITS_PER
  BY Products, SliceAssumption
<1>3. Members(store[r]) \subseteq 0 .. n * BITS_PER - 1
  BY MembersBelow
<1> QED BY <1>1, <1>2, <1>3 DEF Bounded!Below

\* An answer of indices below the capacity of a set.
LEMMA AnswerFine ==
  ASSUME TypeOK, NEW r \in Names, NEW n \in 0 .. MaxLen, store[r] \in Words(n),
         NEW call, NEW ids, ids \subseteq 0 .. n * BITS_PER - 1, Answer(call, ids)
  PROVE  Fine
BY View DEF Answer, Fine

LEMMA NothingFine ==
  ASSUME NEW call, Answer(call, {}) \/ Panic
  PROVE  Fine
<1>1. CASE Answer(call, {})
  BY <1>1 DEF Answer, Fine
<1>2. CASE Panic
  BY <1>2 DEF Panic, Fine
<1> QED BY <1>1, <1>2

\* A step that puts an index in, or takes it out.
LEMMA BitStep ==
  ASSUME TypeOK, NEW r \in Names, NEW n \in 0 .. MaxLen, store[r] \in Words(n),
         Words(n) \subseteq Stores(kind[r]), NEW x \in Nat, x < n * BITS_PER,
         UNCHANGED kind, Fine
  PROVE  /\ SetWord(r, Seg(x), store[r][Seg(x)] \cup {Mask(x)}) =>
              TypeOK' /\ Bounded!Change(r, Members(store[r]) \cup {x})
         /\ SetWord(r, Seg(x), store[r][Seg(x)] \ {Mask(x)}) =>
              TypeOK' /\ Bounded!Change(r, Members(store[r]) \ {x})
<1> DEFINE set == [store[r] EXCEPT ![Seg(x)] = store[r][Seg(x)] \cup {Mask(x)}]
           unset == [store[r] EXCEPT ![Seg(x)] = store[r][Seg(x)] \ {Mask(x)}]
<1>1. /\ set \in Words(n) /\ Members(set) = Members(store[r]) \cup {x}
      /\ unset \in Words(n) /\ Members(unset) = Members(store[r]) \ {x}
  BY SetMembers, UnsetMembers
<1>2. SetWord(r, Seg(x), store[r][Seg(x)] \cup {Mask(x)}) => Put(r, set)
  BY DEF SetWord, Put
<1>3. SetWord(r, Seg(x), store[r][Seg(x)] \ {Mask(x)}) => Put(r, unset)
  BY DEF SetWord, Put
<1> HIDE DEF set, unset
<1>4. Put(r, set) => TypeOK' /\ Bounded!Change(r, Members(set))
  BY <1>1, ChangeStep
<1>5. Put(r, unset) => TypeOK' /\ Bounded!Change(r, Members(unset))
  BY <1>1, ChangeStep
<1> QED BY <1>1, <1>2, <1>3, <1>4, <1>5

\* The calls with an index.
AbstractAtIndex(r, x) ==
  \/ Bounded!OutOfRange(r, x) \/ Bounded!Insert(r, x) \/ Bounded!Remove(r, x)
  \/ Bounded!Assign(r, x) \/ Bounded!Toggle(r, x) \/ Bounded!Contains(r, x)

LEMMA AtIndexStep ==
  ASSUME TypeOK, NEW r \in Names, NEW x \in Nat, AtIndex(r, x), UNCHANGED kind
  PROVE  TypeOK' /\ AbstractAtIndex(r, x)
<1>1. PICK n \in 0 .. MaxLen : store[r] \in Words(n) /\ Words(n) \subseteq Stores(kind[r])
  BY SetWords
<1>2. /\ Capacity(store[r]) = n * BITS_PER /\ n * BITS_PER \in Nat
      /\ Bounded!Below(r) = 0 .. n * BITS_PER - 1
  BY <1>1, View
<1> DEFINE m == Members(store[r])
<1>3. CASE CheckBitIndex(r, x)
  <2>1. Panic /\ UNCHANGED store /\ x \notin Bounded!Below(r)
    BY <1>2, <1>3 DEF CheckBitIndex
  <2>2. TypeOK' /\ UNCHANGED <<[q \in Names |-> Members(store[q])], [q \in Names |-> Capacity(store[q])]>>
    BY <2>1, NothingFine, SameStep
  <2> QED BY <2>1, <2>2 DEF AbstractAtIndex, Bounded!OutOfRange, Panic
<1>4. ASSUME Checked(r, x)
      PROVE  /\ x < n * BITS_PER /\ x \in Bounded!Below(r) /\ x \in 0 .. n * BITS_PER - 1
             /\ IsSet(r, x) <=> x \in m
  <2>1. x < n * BITS_PER
    BY <1>2, <1>4 DEF Checked
  <2>2. Mask(x) \in store[r][Seg(x)] <=> x \in m
    BY <1>1, <2>1, BitMember
  <2> QED BY <1>2, <2>1, <2>2 DEF IsSet
<1>5. CASE Insert(r, x)
  <2>1. /\ Checked(r, x) /\ SetWord(r, Seg(x), store[r][Seg(x)] \cup {Mask(x)})
        /\ Answer("insert", {x} \ m) /\ {x} \ m \subseteq 0 .. n * BITS_PER - 1
    BY <1>4, <1>5 DEF Insert
  <2>2. Fine
    BY <1>1, <2>1, AnswerFine
  <2>3. TypeOK' /\ Bounded!Change(r, m \cup {x})
    BY <1>1, <1>4, <2>1, <2>2, BitStep
  <2> QED BY <1>4, <2>1, <2>3 DEF AbstractAtIndex, Bounded!Insert, Bounded!Answer, Answer
<1>6. CASE Remove(r, x)
  <2>1. /\ Checked(r, x) /\ Answer("remove", {x} \cap m) /\ {x} \cap m \subseteq 0 .. n * BITS_PER - 1
    BY <1>4, <1>6 DEF Remove
  <2>2. Fine
    BY <1>1, <2>1, AnswerFine
  <2>3. TypeOK' /\ Bounded!Change(r, m \ {x})
    <3>1. CASE x \in m
      <4>1. SetWord(r, Seg(x), store[r][Seg(x)] \ {Mask(x)})
        BY <1>4, <1>6, <2>1, <3>1 DEF Remove
      <4> QED BY <1>1, <1>4, <2>1, <2>2, <4>1, BitStep
    <3>2. CASE x \notin m
      <4>1. UNCHANGED store /\ m \ {x} = m
        BY <1>4, <1>6, <2>1, <3>2 DEF Remove
      <4> QED BY <2>2, <4>1, SameStep
    <3> QED BY <3>1, <3>2
  <2> QED BY <1>4, <2>1, <2>3 DEF AbstractAtIndex, Bounded!Remove, Bounded!Answer, Answer
<1>7. CASE Set(r, x)
  <2>1. Checked(r, x)
    BY <1>7 DEF Set
  <2>2. CASE SetWord(r, Seg(x), store[r][Seg(x)] \cup {Mask(x)}) /\ Answer("set true", {})
    <3>1. TypeOK' /\ Bounded!Change(r, m \cup {x})
      BY <1>1, <1>4, <2>1, <2>2, NothingFine, BitStep
    <3> QED BY <1>4, <2>1, <2>2, <3>1 DEF AbstractAtIndex, Bounded!Assign, Bounded!Answer, Answer
  <2>3. CASE SetWord(r, Seg(x), store[r][Seg(x)] \ {Mask(x)}) /\ Answer("set false", {})
    <3>1. TypeOK' /\ Bounded!Change(r, m \ {x})
      BY <1>1, <1>4, <2>1, <2>3, NothingFine, BitStep
    <3> QED BY <1>4, <2>1, <2>3, <3>1 DEF AbstractAtIndex, Bounded!Assign, Bounded!Answer, Answer
  <2> QED BY <1>7, <2>2, <2>3 DEF Set
<1>8. CASE Toggle(r, x)
  <2>1. Checked(r, x) /\ Answer("toggle", {})
    BY <1>8 DEF Toggle
  <2>2. CASE x \in m
    <3>1. XorWord(store[r][Seg(x)], {Mask(x)}) = store[r][Seg(x)] \ {Mask(x)}
      BY <1>4, <2>1, <2>2 DEF XorWord, IsSet
    <3>2. TypeOK' /\ Bounded!Change(r, m \ {x})
      BY <1>1, <1>4, <1>8, <2>1, <3>1, NothingFine, BitStep DEF Toggle
    <3> QED BY <1>4, <2>1, <2>2, <3>2 DEF AbstractAtIndex, Bounded!Toggle, Bounded!Answer, Answer
  <2>3. CASE x \notin m
    <3>1. XorWord(store[r][Seg(x)], {Mask(x)}) = store[r][Seg(x)] \cup {Mask(x)}
      BY <1>4, <2>1, <2>3 DEF XorWord, IsSet
    <3>2. TypeOK' /\ Bounded!Change(r, m \cup {x})
      BY <1>1, <1>4, <1>8, <2>1, <3>1, NothingFine, BitStep DEF Toggle
    <3> QED BY <1>4, <2>1, <2>3, <3>2 DEF AbstractAtIndex, Bounded!Toggle, Bounded!Answer, Answer
  <2> QED BY <2>2, <2>3
<1>9. CASE Contains(r, x)
  <2>1. /\ Checked(r, x) /\ Answer("contains", {x} \cap m) /\ UNCHANGED store
        /\ {x} \cap m \subseteq 0 .. n * BITS_PER - 1
    BY <1>4, <1>9 DEF Contains
  <2>2. TypeOK' /\ UNCHANGED <<[q \in Names |-> Members(store[q])], [q \in Names |-> Capacity(store[q])]>>
    BY <1>1, <2>1, AnswerFine, SameStep
  <2> QED BY <1>4, <2>1, <2>2 DEF AbstractAtIndex, Bounded!Contains, Bounded!Answer, Answer
<1> QED BY <1>3, <1>5, <1>6, <1>7, <1>8, <1>9 DEF AtIndex

-----------------------------------------------------------------------------
\* The calls without an index.

\* The bit that is the first, or the last, is the least, or the greatest, index.
LEMMA EndMember ==
  ASSUME NEW n \in Nat, NEW a \in Words(n), NEW k \in 0 .. n - 1, NEW b \in Bits,
         IsFirst(a, k, b) \/ IsLast(a, k, b), NEW x, x = IdxOf(k, b)
  PROVE  /\ x \in Members(a) /\ x \in Nat /\ x < n * BITS_PER /\ Seg(x) = k /\ Mask(x) = b
         /\ IsFirst(a, k, b) => \A y \in Members(a) : x <= y
         /\ IsLast(a, k, b) => \A y \in Members(a) : y <= x
<1>1. x \in Nat /\ Seg(x) = k /\ Mask(x) = b
  BY JoinIndex
<1>2. b \in a[k]
  BY DEF IsFirst, IsLast
<1>3. x \in Members(a) /\ x < n * BITS_PER
  BY <1>1, <1>2, MemberIff, IndexBound
<1>4. ASSUME NEW y \in Members(a)
      PROVE  /\ y \in Nat /\ Seg(y) \in 0 .. n - 1 /\ Mask(y) \in a[Seg(y)]
             /\ a[Seg(y)] # {} /\ Mask(y) \in Int /\ b \in Int
  <2>1. y \in Nat /\ Seg(y) \in 0 .. n - 1 /\ Mask(y) \in a[Seg(y)]
    BY MemberIff
  <2> QED BY <2>1, SplitIndex, SliceAssumption DEF Bits
<1>5. DOMAIN a = 0 .. n - 1
  BY Shape
<1>6. ASSUME IsFirst(a, k, b), NEW y \in Members(a) PROVE x <= y
  <2>1. ~ (Seg(y) < k) /\ (Seg(y) = k => b <= Mask(y))
    BY <1>4, <1>5, <1>6 DEF IsFirst
  <2>2. k < Seg(y) \/ Seg(y) = k
    BY <1>4, <2>1
  <2> QED BY <1>1, <1>4, <2>1, <2>2, IndexOrder
<1>7. ASSUME IsLast(a, k, b), NEW y \in Members(a) PROVE y <= x
  <2>1. ~ (Seg(y) > k) /\ (Seg(y) = k => Mask(y) <= b)
    BY <1>4, <1>5, <1>7 DEF IsLast
  <2>2. Seg(y) < k \/ Seg(y) = k
    BY <1>4, <2>1
  <2> QED BY <1>1, <1>4, <2>1, <2>2, IndexOrder
<1> QED BY <1>1, <1>3, <1>6, <1>7

LEMMA EmptyMembers ==
  ASSUME NEW n \in Nat, NEW a \in Words(n), IsEmpty(a)
  PROVE  Members(a) = {}
<1>1. \A k \in 0 .. n - 1 : a[k] = {}
  BY Shape DEF IsEmpty
<1> QED BY <1>1, MemberIff

\* Taking the bit of an index out, for an answer.
LEMMA TakeStep ==
  ASSUME TypeOK, NEW r \in Names, NEW n \in 0 .. MaxLen, store[r] \in Words(n),
         Words(n) \subseteq Stores(kind[r]), NEW k \in 0 .. n - 1, NEW b \in Bits,
         IsFirst(store[r], k, b) \/ IsLast(store[r], k, b), NEW call, Take(r, k, b, call),
         UNCHANGED kind, NEW x, x = IdxOf(k, b)
  PROVE  TypeOK' /\ Bounded!Change(r, Members(store[r]) \ {x}) /\ Bounded!Answer(call, {x})
<1>1. x \in Nat /\ x < n * BITS_PER /\ Seg(x) = k /\ Mask(x) = b
  BY EndMember
<1>2. Answer(call, {x}) /\ SetWord(r, Seg(x), store[r][Seg(x)] \ {Mask(x)})
  BY <1>1 DEF Take
<1>3. n * BITS_PER \in Nat
  BY View
<1>4. Fine
  BY <1>1, <1>2, <1>3, AnswerFine
<1>5. TypeOK' /\ Bounded!Change(r, Members(store[r]) \ {x})
  BY <1>1, <1>2, <1>4, BitStep
<1> QED BY <1>2, <1>5 DEF Bounded!Answer, Answer

LEMMA TakeNoneStep ==
  ASSUME TypeOK, NEW r \in Names, NEW n \in 0 .. MaxLen, store[r] \in Words(n),
         NEW call, TakeNone(r, call), UNCHANGED kind
  PROVE  /\ TypeOK' /\ Members(store[r]) = {}
         /\ Bounded!Change(r, Members(store[r])) /\ Bounded!Answer(call, {})
<1>1. Answer(call, {}) /\ UNCHANGED store /\ Members(store[r]) = {}
  BY EmptyMembers DEF TakeNone
<1>2. TypeOK' /\ Bounded!Change(r, Members(store[r]))
  BY <1>1, NothingFine, SameStep
<1> QED BY <1>1, <1>2 DEF Bounded!Answer, Answer

AbstractOnSet(r) ==
  \/ Bounded!PopFirst(r) \/ Bounded!PopLast(r) \/ Bounded!Clear(r)
  \/ Bounded!Drain(r) \/ Bounded!Retain(r)

LEMMA OnSetStep ==
  ASSUME TypeOK, NEW r \in Names, OnSet(r), UNCHANGED kind
  PROVE  TypeOK' /\ AbstractOnSet(r)
<1>1. PICK n \in 0 .. MaxLen : store[r] \in Words(n) /\ Words(n) \subseteq Stores(kind[r])
  BY SetWords
<1>2. /\ NumWords(store[r]) = n /\ DOMAIN store[r] = 0 .. n - 1
      /\ Capacity(store[r]) = n * BITS_PER /\ n * BITS_PER \in Nat
      /\ Members(store[r]) \subseteq 0 .. n * BITS_PER - 1
      /\ n * BITS_PER - 1 <= MaxLen * BITS_PER - 1 /\ MaxLen * BITS_PER \in Nat
  BY <1>1, Shape, View
<1>3. Zero(n) \in Words(n) /\ Members(Zero(n)) = {}
  BY ZeroMembers
<1> DEFINE m == Members(store[r])
<1>4. ASSUME PopFirst(r) PROVE TypeOK' /\ Bounded!PopFirst(r)
  <2>1. CASE TakeNone(r, "pop_first")
    <3>1. TypeOK' /\ m = {} /\ Bounded!Change(r, m) /\ Bounded!Answer("pop_first", {})
      BY <1>1, <2>1, TakeNoneStep
    <3> QED BY <3>1 DEF Bounded!PopFirst
  <2>2. ASSUME NEW k \in 0 .. n - 1, NEW b \in Bits, IsFirst(store[r], k, b), Take(r, k, b, "pop_first")
        PROVE  TypeOK' /\ Bounded!PopFirst(r)
    <3> DEFINE x == IdxOf(k, b)
    <3>1. x \in m /\ x \in Nat /\ \A y \in m : x <= y
      BY <1>1, <2>2, EndMember
    <3>2. TypeOK' /\ Bounded!Change(r, m \ {x}) /\ Bounded!Answer("pop_first", {x})
      BY <1>1, <2>2, TakeStep
    <3> HIDE DEF x
    <3>3. m \subseteq Int
      BY <1>2
    <3>4. Bounded!Min(m) = x
      BY <3>1, <3>3 DEF Bounded!Min
    <3> QED BY <3>1, <3>2, <3>4 DEF Bounded!PopFirst
  <2> QED BY <1>2, <1>4, <2>1, <2>2 DEF PopFirst
<1>5. ASSUME PopLast(r) PROVE TypeOK' /\ Bounded!PopLast(r)
  <2>1. CASE TakeNone(r, "pop_last")
    <3>1. TypeOK' /\ m = {} /\ Bounded!Change(r, m) /\ Bounded!Answer("pop_last", {})
      BY <1>1, <2>1, TakeNoneStep
    <3> QED BY <3>1 DEF Bounded!PopLast
  <2>2. ASSUME NEW k \in 0 .. n - 1, NEW b \in Bits, IsLast(store[r], k, b), Take(r, k, b, "pop_last")
        PROVE  TypeOK' /\ Bounded!PopLast(r)
    <3> DEFINE x == IdxOf(k, b)
    <3>1. x \in m /\ x \in Nat /\ \A y \in m : y <= x
      BY <1>1, <2>2, EndMember
    <3>2. TypeOK' /\ Bounded!Change(r, m \ {x}) /\ Bounded!Answer("pop_last", {x})
      BY <1>1, <2>2, TakeStep
    <3> HIDE DEF x
    <3>3. m \subseteq Int
      BY <1>2
    <3>4. Bounded!Max(m) = x
      BY <3>1, <3>3 DEF Bounded!Max
    <3> QED BY <3>1, <3>2, <3>4 DEF Bounded!PopLast
  <2> QED BY <1>2, <1>5, <2>1, <2>2 DEF PopLast
<1>6. ASSUME Clear(r) PROVE TypeOK' /\ Bounded!Clear(r)
  <2>1. Put(r, Zero(n)) /\ Answer("clear", {})
    BY <1>2, <1>6 DEF Clear
  <2>2. TypeOK' /\ Bounded!Change(r, Members(Zero(n)))
    BY <1>1, <1>3, <2>1, NothingFine, ChangeStep
  <2> QED BY <1>3, <2>1, <2>2 DEF Bounded!Clear, Bounded!Answer, Answer
<1>7. ASSUME Drain(r) PROVE TypeOK' /\ Bounded!Drain(r)
  <2>1. PICK j \in 0 .. n * BITS_PER : Answer("drain", {x \in m : x < j})
    BY <1>2, <1>7 DEF Drain
  <2>2. Put(r, Zero(n))
    BY <1>2, <1>7 DEF Drain
  <2>3. Fine
    BY <1>1, <1>2, <2>1, AnswerFine
  <2>4. TypeOK' /\ Bounded!Change(r, Members(Zero(n)))
    BY <1>1, <1>3, <2>2, <2>3, ChangeStep
  <2>5. j \in 0 .. MaxLen * BITS_PER
    BY <1>2
  <2>6. \E l \in 0 .. MaxLen * BITS_PER :
          Bounded!Answer("drain", {x \in [q \in Names |-> Members(store[q])][r] : x < l})
    BY <2>1, <2>5 DEF Bounded!Answer, Answer
  <2> QED BY <1>3, <2>4, <2>6 DEF Bounded!Drain
<1>8. ASSUME Retain(r) PROVE TypeOK' /\ Bounded!Retain(r)
  <2>1. PICK kept \in SUBSET m :
          Put(r, [k \in DOMAIN store[r] |-> {b \in store[r][k] : IdxOf(k, b) \in kept}])
    BY <1>8 DEF Retain
  <2> DEFINE c == [k \in DOMAIN store[r] |-> {b \in store[r][k] : IdxOf(k, b) \in kept}]
  <2>2. c \in Words(n) /\ Members(c) = kept
    <3>1. \A k \in 0 .. n - 1 : store[r][k] \in SUBSET Bits
      BY <1>1, Shape
    <3>2. c \in Words(n)
      BY <1>2, <3>1 DEF Words
    <3>3. \A k \in 0 .. n - 1 : \A b : b \in c[k] <=> b \in store[r][k] /\ IdxOf(k, b) \in kept
      BY <1>2
    <3> HIDE DEF c
    <3>4. n \in Nat /\ store[r] \in Words(n)
      BY <1>1
    <3> QED BY <2>1, <3>2, <3>3, <3>4, KeptMembers
  <2>3. Answer("retain", {}) /\ Put(r, c)
    BY <1>8, <2>1 DEF Retain
  <2> HIDE DEF c
  <2>4. TypeOK' /\ Bounded!Change(r, Members(c))
    BY <1>1, <2>2, <2>3, NothingFine, ChangeStep
  <2> QED BY <2>2, <2>3, <2>4 DEF Bounded!Retain, Bounded!Answer, Answer
<1> QED BY <1>4, <1>5, <1>6, <1>7, <1>8 DEF OnSet, AbstractOnSet

-----------------------------------------------------------------------------
\* Calls on two sets, as slices: |= &= -= ^= and append.
LEMMA InPlaceStep ==
  ASSUME TypeOK, NEW r \in Names, NEW s \in Names, InPlace(r, s), UNCHANGED kind
  PROVE  TypeOK' /\ Bounded!InPlace(r, s)
<1>1. PICK n \in 0 .. MaxLen : store[r] \in Words(n) /\ Words(n) \subseteq Stores(kind[r])
  BY SetWords
<1>2. PICK l \in 0 .. MaxLen : store[s] \in Words(l)
  BY SetWords
<1>3. Bounded!Below(r) = 0 .. n * BITS_PER - 1
  BY <1>1, View
<1> DEFINE a == store[r]
           b == store[s]
<1>9. a \in Words(n) /\ b \in Words(l) /\ n \in Nat /\ l \in Nat
  BY <1>1, <1>2
<1>4. ASSUME NEW c \in Words(n), Put(r, c), NEW call, Answer(call, {})
      PROVE  TypeOK' /\ Bounded!Change(r, Members(c)) /\ Bounded!Answer(call, {})
  <2>1. Fine
    BY <1>4, NothingFine
  <2>2. TypeOK' /\ Bounded!Change(r, Members(c))
    BY <1>1, <1>4, <2>1, ChangeStep
  <2> QED BY <1>4, <2>2 DEF Bounded!Answer, Answer
<1>5. CASE Put(r, UnionFrom(a, b)) /\ Answer("|=", {})
  <2>1. /\ UnionFrom(a, b) \in Words(n)
        /\ Members(UnionFrom(a, b)) = (Members(a) \cup Members(b)) \cap (0 .. n * BITS_PER - 1)
    <3> HIDE DEF a, b
    <3> QED BY <1>9, UnionMembers
  <2>2. /\ TypeOK' /\ Bounded!Change(r, (Members(a) \cup Members(b)) \cap Bounded!Below(r))
        /\ Bounded!Answer("|=", {})
    BY <1>3, <1>4, <1>5, <2>1
  <2> QED BY <2>2 DEF Bounded!InPlace
<1>6. CASE Put(r, IntersectFrom(a, b)) /\ Answer("&=", {})
  <2>1. IntersectFrom(a, b) \in Words(n) /\ Members(IntersectFrom(a, b)) = Members(a) \cap Members(b)
    <3> HIDE DEF a, b
    <3> QED BY <1>9, IntersectMembers
  <2>2. TypeOK' /\ Bounded!Change(r, Members(a) \cap Members(b)) /\ Bounded!Answer("&=", {})
    BY <1>4, <1>6, <2>1
  <2> QED BY <2>2 DEF Bounded!InPlace
<1>7. CASE Put(r, DifferenceFrom(a, b)) /\ Answer("-=", {})
  <2>1. DifferenceFrom(a, b) \in Words(n) /\ Members(DifferenceFrom(a, b)) = Members(a) \ Members(b)
    <3> HIDE DEF a, b
    <3> QED BY <1>9, DifferenceMembers
  <2>2. TypeOK' /\ Bounded!Change(r, Members(a) \ Members(b)) /\ Bounded!Answer("-=", {})
    BY <1>4, <1>7, <2>1
  <2> QED BY <2>2 DEF Bounded!InPlace
<1>8. CASE Put(r, SymmetricDifferenceFrom(a, b)) /\ Answer("^=", {})
  <2>1. /\ SymmetricDifferenceFrom(a, b) \in Words(n)
        /\ Members(SymmetricDifferenceFrom(a, b)) =
             ((Members(a) \ Members(b)) \cup (Members(b) \ Members(a))) \cap (0 .. n * BITS_PER - 1)
    <3> HIDE DEF a, b
    <3> QED BY <1>9, SymmetricMembers
  <2>2. /\ TypeOK' /\ Bounded!Answer("^=", {})
        /\ Bounded!Change(r, ((Members(a) \ Members(b)) \cup (Members(b) \ Members(a))) \cap Bounded!Below(r))
    BY <1>3, <1>4, <1>8, <2>1
  <2> QED BY <2>2 DEF Bounded!InPlace, Bounded!SymmetricDifference
<1> QED BY <1>5, <1>6, <1>7, <1>8 DEF InPlace

LEMMA AppendStep ==
  ASSUME TypeOK, NEW r \in Names, NEW s \in Names, r # s, AppendFrom(r, s), UNCHANGED kind
  PROVE  TypeOK' /\ Bounded!Append(r, s)
<1>1. PICK n \in 0 .. MaxLen : store[r] \in Words(n) /\ Words(n) \subseteq Stores(kind[r])
  BY SetWords
<1>2. PICK l \in 0 .. MaxLen : store[s] \in Words(l) /\ Words(l) \subseteq Stores(kind[s])
  BY SetWords
<1> DEFINE a == store[r]
           b == store[s]
           c == UnionFrom(a, b)
           d == [k \in DOMAIN b |-> IF k \in DOMAIN a THEN {} ELSE b[k]]
           below == 0 .. n * BITS_PER - 1
<1>3. /\ DOMAIN a = 0 .. n - 1 /\ DOMAIN b = 0 .. l - 1
      /\ \A k \in 0 .. l - 1 : b[k] \in SUBSET Bits
  BY <1>1, <1>2, Shape
<1>4. DOMAIN store = Names /\ store' = [store EXCEPT ![r] = c, ![s] = d] /\ Answer("append", {})
  BY DEF TypeOK, AppendFrom, UnionFrom
<1>5. c \in Words(n) /\ Members(c) = (Members(a) \cup Members(b)) \cap below
  <2>1. a \in Words(n) /\ b \in Words(l) /\ n \in Nat /\ l \in Nat
    BY <1>1, <1>2
  <2> HIDE DEF a, b
  <2> QED BY <2>1, UnionMembers
<1>6. d \in Words(l) /\ \A k \in 0 .. l - 1 : d[k] = IF k \in 0 .. n - 1 THEN {} ELSE b[k]
  BY <1>3 DEF Words
<1>7. Members(d) = Members(b) \ below
  <2>1. \A x : x \in below <=> x \in Nat /\ Seg(x) \in 0 .. n - 1
    BY IndexBound, SplitIndex, Products
  <2>2. \A x : x \in Members(b) <=> x \in Nat /\ Seg(x) \in 0 .. l - 1 /\ Mask(x) \in b[Seg(x)]
    BY <1>2, MemberIff
  <2> HIDE DEF d
  <2>3. \A x : x \in Members(d) <=> x \in Nat /\ Seg(x) \in 0 .. l - 1 /\ Mask(x) \in d[Seg(x)]
    BY <1>6, MemberIff
  <2>4. \A x : x \in Members(d) <=> x \in Members(b) \ below
    BY <1>6, <2>1, <2>2, <2>3
  <2> QED BY <2>4
<1>8. /\ Capacity(a) = n * BITS_PER /\ Capacity(c) = n * BITS_PER
      /\ Capacity(b) = l * BITS_PER /\ Capacity(d) = l * BITS_PER
  BY <1>1, <1>2, <1>5, <1>6, Shape
<1>9. Members(a) \subseteq below /\ Bounded!Below(r) = below
  BY <1>1, View
<1>10. Members(c) = Members(a) \cup (Members(b) \cap below)
  BY <1>5, <1>9
<1> HIDE DEF c, d
<1>11. /\ DOMAIN store' = Names /\ store'[r] = c /\ store'[s] = d
       /\ \A q \in Names : q # r /\ q # s => store'[q] = store[q]
  BY <1>4
<1>12. TypeOK'
  <2>1. \A q \in Names : store'[q] \in Stores(kind[q])
    BY <1>1, <1>2, <1>5, <1>6, <1>11 DEF TypeOK
  <2>2. Fine
    BY <1>4, NothingFine
  <2> QED BY <1>11, <2>1, <2>2 DEF TypeOK, Fine, Stores, BoxedStores, ArrayStores, PrimStores
<1>13. \A q \in Names : Members(store'[q]) = IF q = s THEN Members(b) \ below
                                            ELSE IF q = r THEN Members(a) \cup (Members(b) \cap below)
                                            ELSE Members(store[q])
  BY <1>7, <1>10, <1>11
<1>14. \A q \in Names : Capacity(store'[q]) = Capacity(store[q])
  BY <1>8, <1>11
<1>15. Bounded!Append(r, s)
  BY <1>4, <1>9, <1>13, <1>14 DEF Bounded!Append, Bounded!Answer, Answer
<1> QED BY <1>12, <1>15

-----------------------------------------------------------------------------
\* What a boxed set adds.

\* A step that gives a set words, for the answer that a call is done.
LEMMA BecomeStep ==
  ASSUME TypeOK, NEW q \in Names, NEW n \in 0 .. MaxLen, NEW c \in Words(n),
         Words(n) \subseteq Stores(kind[q]), Put(q, c), UNCHANGED kind,
         NEW call, Answer(call, {})
  PROVE  TypeOK' /\ Bounded!Become(q, Members(c), n * BITS_PER) /\ Bounded!Answer(call, {})
<1>1. Fine
  BY NothingFine
<1>2. TypeOK' /\ Bounded!Become(q, Members(c), n * BITS_PER)
  BY <1>1, PutStep
<1> QED BY <1>2 DEF Bounded!Answer, Answer

\* div_ceil.
LEMMA StoreSizeRounds ==
  ASSUME NEW bits \in 0 .. MaxLen * BITS_PER, NEW n, n = StoreSize(bits)
  PROVE  /\ n \in 0 .. MaxLen
         /\ n * BITS_PER \in 0 .. MaxLen * BITS_PER
         /\ (n * BITS_PER) % BITS_PER = 0
         /\ bits <= n * BITS_PER /\ n * BITS_PER < bits + BITS_PER
<1> DEFINE y == bits + BITS_PER - 1
<1>1. /\ BITS_PER \in Nat \ {0} /\ MaxLen \in Nat /\ MaxLen * BITS_PER \in Nat /\ bits \in Nat
      /\ y \in Nat /\ bits <= MaxLen * BITS_PER
  BY SliceAssumption, Products
<1>2. n = Seg(y)
  BY DEF StoreSize, Seg
<1>3. (MaxLen + 1) * BITS_PER = MaxLen * BITS_PER + BITS_PER
  BY <1>1
<1>4. y < (MaxLen + 1) * BITS_PER /\ MaxLen + 1 \in Nat
  BY <1>1, <1>3
<1>5. n \in Nat /\ Mask(y) \in 0 .. BITS_PER - 1 /\ y = n * BITS_PER + Mask(y)
  BY <1>1, <1>2, SplitIndex DEF IdxOf, Bits
<1>6. n \in 0 .. MaxLen
  <2>1. Seg(y) < MaxLen + 1
    BY <1>1, <1>4, IndexBound
  <2> QED BY <1>1, <1>2, <1>5, <2>1
<1>7. n * BITS_PER \in Nat /\ n * BITS_PER <= MaxLen * BITS_PER
  BY <1>1, <1>6, Products
<1>8. (n * BITS_PER) % BITS_PER = 0
  <2>1. 0 \in Bits
    BY <1>1 DEF Bits
  <2>2. Mask(IdxOf(n, 0)) = 0
    BY <1>5, <2>1, JoinIndex
  <2>3. IdxOf(n, 0) = n * BITS_PER
    BY <1>7 DEF IdxOf
  <2> QED BY <2>2, <2>3 DEF Mask
<1> QED BY <1>1, <1>5, <1>6, <1>7, <1>8

LEMMA WithCapacityStep ==
  ASSUME TypeOK, NEW r \in Names, Is(r, "boxed"), WithCapacity(r), UNCHANGED kind
  PROVE  TypeOK' /\ Bounded!Make(r)
<1>1. PICK bits \in 0 .. MaxLen * BITS_PER : Put(r, Zero(StoreSize(bits)))
  BY DEF WithCapacity
<1> DEFINE n == StoreSize(bits)
<1>2. /\ n \in 0 .. MaxLen /\ n * BITS_PER \in 0 .. MaxLen * BITS_PER
      /\ (n * BITS_PER) % BITS_PER = 0
      /\ bits <= n * BITS_PER /\ n * BITS_PER < bits + BITS_PER
  BY StoreSizeRounds
<1>3. Put(r, Zero(n)) /\ Answer("with_capacity", {})
  BY <1>1 DEF WithCapacity
<1> HIDE DEF n
<1>4. Zero(n) \in Words(n) /\ Members(Zero(n)) = {}
  BY <1>2, ZeroMembers
<1>5. Words(n) \subseteq Stores(kind[r])
  BY <1>2 DEF Is, Stores, BoxedStores
<1>6. TypeOK' /\ Bounded!Become(r, Members(Zero(n)), n * BITS_PER) /\ Bounded!Answer("with_capacity", {})
  BY <1>2, <1>3, <1>4, <1>5, BecomeStep
<1>7. \E b, cap \in 0 .. MaxLen * BITS_PER :
        /\ cap % BITS_PER = 0 /\ b <= cap /\ cap < b + BITS_PER
        /\ Bounded!Become(r, {}, cap)
  BY <1>2, <1>4, <1>6
<1> QED BY <1>6, <1>7 DEF Bounded!Make

LEMMA BoxComplementStep ==
  ASSUME TypeOK, NEW q \in Names, NEW r \in Names, Is(q, "boxed"), BoxComplement(q, r), UNCHANGED kind
  PROVE  TypeOK' /\ Bounded!Complement(q, r)
<1>1. PICK n \in 0 .. MaxLen : store[r] \in Words(n)
  BY SetWords
<1>2. Put(q, Not(store[r])) /\ Answer("!", {})
  BY DEF BoxComplement
<1>3. Not(store[r]) \in Words(n) /\ Members(Not(store[r])) = 0 .. n * BITS_PER - 1 \ Members(store[r])
  BY <1>1, NotMembers
<1>4. Words(n) \subseteq Stores(kind[q])
  BY DEF Is, Stores, BoxedStores
<1>5. TypeOK' /\ Bounded!Become(q, Members(Not(store[r])), n * BITS_PER) /\ Bounded!Answer("!", {})
  BY <1>2, <1>3, <1>4, BecomeStep
<1>6. Bounded!Below(r) = 0 .. n * BITS_PER - 1 /\ Capacity(store[r]) = n * BITS_PER
  BY <1>1, View
<1> QED BY <1>3, <1>5, <1>6 DEF Bounded!Complement

LEMMA MaxIs ==
  ASSUME NEW S, S \subseteq Nat, NEW x \in S, \A y \in S : y <= x
  PROVE  Bounded!Max(S) = x
<1> DEFINE Top(z) == \A y \in S : z >= y
<1>1. x \in S /\ Top(x)
  OBVIOUS
<1>2. \A z \in S : Top(z) => z = x
  OBVIOUS
<1>3. Bounded!Max(S) \in S /\ Top(Bounded!Max(S))
  BY <1>1 DEF Bounded!Max
<1> QED BY <1>2, <1>3

\* The greater of two capacities.
LEMMA MaxOfTwo ==
  ASSUME NEW n \in Nat, NEW m \in Nat, NEW l \in {n, m}, n <= l, m <= l
  PROVE  Bounded!Max({n * BITS_PER, m * BITS_PER}) = l * BITS_PER
<1> DEFINE x == n * BITS_PER
           y == m * BITS_PER
           z == l * BITS_PER
<1>1. x \in Nat /\ y \in Nat /\ z \in {x, y} /\ x <= z /\ y <= z
  BY Products
<1> HIDE DEF x, y, z
<1>2. Bounded!Max({x, y}) = z
  BY <1>1, MaxIs
<1> QED BY <1>2 DEF x, y, z

LEMMA BoxOperatorStep ==
  ASSUME TypeOK, NEW q \in Names, NEW r \in Names, NEW s \in Names,
         Is(q, "boxed"), BoxOperator(q, r, s), UNCHANGED kind
  PROVE  TypeOK' /\ Bounded!Operator(q, r, s)
<1> DEFINE a == store[r]
           b == store[s]
<1>1. PICK n \in 0 .. MaxLen : a \in Words(n)
  BY SetWords
<1>2. PICK m \in 0 .. MaxLen : b \in Words(m)
  BY SetWords
<1> DEFINE l == IF n >= m THEN n ELSE m
           wide == Bounded!Max({Capacity(a), Capacity(b)})
<1>3. /\ l \in 0 .. MaxLen /\ l \in Nat /\ n \in Nat /\ m \in Nat
      /\ l \in {n, m} /\ n <= l /\ m <= l
  OBVIOUS
<1>4. wide = l * BITS_PER /\ Capacity(a) = n * BITS_PER
  <2>1. Capacity(a) = n * BITS_PER /\ Capacity(b) = m * BITS_PER
    BY <1>1, <1>2, Shape
  <2>2. Bounded!Max({n * BITS_PER, m * BITS_PER}) = l * BITS_PER
    BY <1>3, MaxOfTwo
  <2> QED BY <2>1, <2>2
<1>5. \A k \in 0 .. MaxLen : Words(k) \subseteq Stores(kind[q])
  BY DEF Is, Stores, BoxedStores
<1>6. ASSUME NEW k \in 0 .. MaxLen, NEW c \in Words(k), NEW call, Put(q, c), Answer(call, {})
      PROVE  TypeOK' /\ Bounded!Become(q, Members(c), k * BITS_PER) /\ Bounded!Answer(call, {})
  BY <1>5, <1>6, BecomeStep
<1>7. CASE Put(q, BitOr(a, b)) /\ Answer("|", {})
  <2>1. BitOr(a, b) \in Words(l) /\ Members(BitOr(a, b)) = Members(a) \cup Members(b)
    <3> HIDE DEF a, b, l
    <3> QED BY <1>1, <1>2, <1>3, OperatorMembers
  <2>2. TypeOK' /\ Bounded!Become(q, Members(a) \cup Members(b), wide) /\ Bounded!Answer("|", {})
    BY <1>3, <1>4, <1>6, <1>7, <2>1
  <2> QED BY <2>2 DEF Bounded!Operator
<1>8. CASE Put(q, BitAnd(a, b)) /\ Answer("&", {})
  <2>1. IntersectFrom(a, b) \in Words(n) /\ Members(IntersectFrom(a, b)) = Members(a) \cap Members(b)
    <3> HIDE DEF a, b
    <3> QED BY <1>1, <1>2, <1>3, IntersectMembers
  <2>2. BitAnd(a, b) = IntersectFrom(a, b)
    BY DEF BitAnd, IntersectFrom
  <2>3. TypeOK' /\ Bounded!Become(q, Members(a) \cap Members(b), Capacity(a)) /\ Bounded!Answer("&", {})
    BY <1>4, <1>6, <1>8, <2>1, <2>2
  <2> QED BY <2>3 DEF Bounded!Operator
<1>9. CASE Put(q, Minus(a, b)) /\ Answer("-", {})
  <2>1. DifferenceFrom(a, b) \in Words(n) /\ Members(DifferenceFrom(a, b)) = Members(a) \ Members(b)
    <3> HIDE DEF a, b
    <3> QED BY <1>1, <1>2, <1>3, DifferenceMembers
  <2>2. Minus(a, b) = DifferenceFrom(a, b)
    BY DEF Minus, DifferenceFrom
  <2>3. TypeOK' /\ Bounded!Become(q, Members(a) \ Members(b), Capacity(a)) /\ Bounded!Answer("-", {})
    BY <1>4, <1>6, <1>9, <2>1, <2>2
  <2> QED BY <2>3 DEF Bounded!Operator
<1>10. CASE Put(q, BitXor(a, b)) /\ Answer("^", {})
  <2> DEFINE both == (Members(a) \ Members(b)) \cup (Members(b) \ Members(a))
  <2>1. BitXor(a, b) \in Words(l) /\ Members(BitXor(a, b)) = both
    <3> HIDE DEF a, b, l
    <3> QED BY <1>1, <1>2, <1>3, OperatorMembers
  <2>2. TypeOK' /\ Bounded!Become(q, both, wide) /\ Bounded!Answer("^", {})
    BY <1>3, <1>4, <1>6, <1>10, <2>1
  <2> QED BY <2>2 DEF Bounded!Operator, Bounded!SymmetricDifference
<1> QED BY <1>7, <1>8, <1>9, <1>10 DEF BoxOperator

-----------------------------------------------------------------------------
\* A batch of sets, collected or extended with.

LEMMA StoreMember ==
  ASSUME TypeOK, NEW r \in Names
  PROVE  /\ \A x : x \in Members(store[r]) <=>
              x \in Nat /\ Seg(x) \in DOMAIN store[r] /\ Mask(x) \in store[r][Seg(x)]
         /\ \A k \in DOMAIN store[r] : store[r][k] \in SUBSET Bits
<1>1. PICK n \in 0 .. MaxLen : store[r] \in Words(n)
  BY SetWords
<1> DEFINE a == store[r]
<1>2. a \in Words(n) /\ n \in Nat
  BY <1>1
<1>3. /\ DOMAIN a = 0 .. n - 1 /\ \A k \in DOMAIN a : a[k] \in SUBSET Bits
      /\ \A x : x \in Members(a) <=> x \in Nat /\ Seg(x) \in 0 .. n - 1 /\ Mask(x) \in a[Seg(x)]
  <2> HIDE DEF a
  <2>1. DOMAIN a = 0 .. n - 1 /\ \A k \in DOMAIN a : a[k] \in SUBSET Bits
    BY <1>2, Shape
  <2>2. \A x : x \in Members(a) <=> x \in Nat /\ Seg(x) \in 0 .. n - 1 /\ Mask(x) \in a[Seg(x)]
    BY <1>2, MemberIff
  <2> QED BY <2>1, <2>2
<1> QED BY <1>3

LEMMA BatchNames ==
  ASSUME NEW batch \in Batches, NEW i \in DOMAIN batch
  PROVE  batch[i] \in Names
BY ProgramAssumption

\* The words of a batch have the members that its sets have.
LEMMA UnitedMembers ==
  ASSUME TypeOK, NEW batch \in Batches
  PROVE  /\ \A x : x \in Bounded!United(batch) <=> x \in Nat /\ Mask(x) \in OrAt(batch, Seg(x))
         /\ \A k : OrAt(batch, k) \in SUBSET Bits
<1>1. ASSUME NEW i \in DOMAIN batch
      PROVE  /\ \A x : x \in Members(store[batch[i]]) <=>
                  /\ x \in Nat /\ Seg(x) \in DOMAIN store[batch[i]]
                  /\ Mask(x) \in store[batch[i]][Seg(x)]
             /\ \A k \in DOMAIN store[batch[i]] : store[batch[i]][k] \in SUBSET Bits
             /\ batch[i] \in Names
  <2>1. batch[i] \in Names
    BY BatchNames
  <2> QED BY <2>1, StoreMember
<1>2. \A x : x \in Bounded!United(batch) <=>
               \E i \in DOMAIN batch : x \in Members(store[batch[i]])
  BY <1>1 DEF Bounded!United
<1>3. \A b, k : b \in OrAt(batch, k) <=>
               \E i \in DOMAIN batch : k \in DOMAIN store[batch[i]] /\ b \in store[batch[i]][k]
  BY DEF OrAt
<1>4. \A x : x \in Bounded!United(batch) <=> x \in Nat /\ Mask(x) \in OrAt(batch, Seg(x))
  BY <1>1, <1>2, <1>3
<1>5. \A k : OrAt(batch, k) \in SUBSET Bits
  BY <1>1, <1>3
<1> QED BY <1>4, <1>5

\* extend of any set: its words with those of the batch at the same places.
LEMMA ExtendStep ==
  ASSUME TypeOK, NEW r \in Names, NEW batch \in Batches, UNCHANGED kind,
         Put(r, [k \in DOMAIN store[r] |-> store[r][k] \cup OrAt(batch, k)]),
         Answer("extend", {})
  PROVE  TypeOK' /\ Bounded!Extend(r, batch)
<1>1. PICK n \in 0 .. MaxLen : store[r] \in Words(n) /\ Words(n) \subseteq Stores(kind[r])
  BY SetWords
<1> DEFINE a == store[r]
           c == [k \in DOMAIN a |-> a[k] \cup OrAt(batch, k)]
<1>2. /\ DOMAIN a = 0 .. n - 1 /\ Bounded!Below(r) = 0 .. n * BITS_PER - 1
      /\ \A k \in DOMAIN a : a[k] \in SUBSET Bits
  BY <1>1, View, Shape
<1>3. c \in Words(n) /\ \A k \in 0 .. n - 1 : c[k] = a[k] \cup OrAt(batch, k)
  BY <1>2, UnitedMembers DEF Words
<1>4. Put(r, c)
  OBVIOUS
<1>5. \A x : x \in 0 .. n * BITS_PER - 1 <=> x \in Nat /\ Seg(x) \in 0 .. n - 1
  BY IndexBound, SplitIndex, Products
<1>6. \A x : x \in Members(a) <=> x \in Nat /\ Seg(x) \in 0 .. n - 1 /\ Mask(x) \in a[Seg(x)]
  BY <1>2, StoreMember
<1> HIDE DEF c
<1>7. \A x : x \in Members(c) <=> x \in Nat /\ Seg(x) \in 0 .. n - 1 /\ Mask(x) \in c[Seg(x)]
  BY <1>3, MemberIff
<1>8. \A x : x \in Members(c) <=> x \in Members(a) \cup (Bounded!United(batch) \cap Bounded!Below(r))
  BY <1>2, <1>3, <1>5, <1>6, <1>7, UnitedMembers
<1>9. Members(c) = Members(a) \cup (Bounded!United(batch) \cap Bounded!Below(r))
  BY <1>8
<1>10. TypeOK' /\ Bounded!Change(r, Members(c))
  BY <1>1, <1>3, <1>4, NothingFine, ChangeStep
<1> QED BY <1>9, <1>10 DEF Bounded!Extend, Bounded!Answer, Answer

LEMMA BelowIff ==
  ASSUME NEW n \in Nat
  PROVE  \A x : x \in 0 .. n * BITS_PER - 1 <=> x \in Nat /\ Seg(x) \in 0 .. n - 1
BY IndexBound, SplitIndex, Products

\* collect, once the result has room for every set of the batch.
LEMMA CollectStep ==
  ASSUME TypeOK, NEW q \in Names, NEW batch \in Batches, UNCHANGED kind,
         NEW n \in 0 .. MaxLen, Words(n) \subseteq Stores(kind[q]),
         \A i \in DOMAIN batch : DOMAIN store[batch[i]] \subseteq 0 .. n - 1,
         Put(q, [k \in 0 .. n - 1 |-> OrAt(batch, k)]), Answer("collect", {}),
         n * BITS_PER \in {Capacity(store[q]),
           Bounded!Max({0} \cup {[r \in Names |-> Capacity(store[r])][batch[i]] : i \in DOMAIN batch})}
  PROVE  TypeOK' /\ Bounded!Collect(q, batch)
<1> DEFINE c == [k \in 0 .. n - 1 |-> OrAt(batch, k)]
<1>1. c \in Words(n) /\ \A k \in 0 .. n - 1 : c[k] = OrAt(batch, k)
  BY UnitedMembers DEF Words
<1>2. Put(q, c)
  OBVIOUS
<1>3. \A k, b : b \in OrAt(batch, k) => k \in 0 .. n - 1
  BY DEF OrAt
<1>4. \A x : x \in 0 .. n * BITS_PER - 1 <=> x \in Nat /\ Seg(x) \in 0 .. n - 1
  BY BelowIff
<1> HIDE DEF c
<1>5. \A x : x \in Members(c) <=> x \in Nat /\ Seg(x) \in 0 .. n - 1 /\ Mask(x) \in c[Seg(x)]
  BY <1>1, MemberIff
<1>6. \A x : x \in Members(c) <=> x \in Bounded!United(batch)
  BY <1>1, <1>3, <1>5, UnitedMembers
<1>7. Members(c) = Bounded!United(batch)
  BY <1>6
<1>8. Bounded!United(batch) \subseteq 0 .. n * BITS_PER - 1
  BY <1>4, <1>5, <1>7
<1>9. TypeOK' /\ Bounded!Become(q, Members(c), n * BITS_PER) /\ Bounded!Answer("collect", {})
  BY <1>1, <1>2, BecomeStep
<1>10. \E cap \in {Capacity(store[q]),
           Bounded!Max({0} \cup {[r \in Names |-> Capacity(store[r])][batch[i]] : i \in DOMAIN batch})} :
         Bounded!United(batch) \subseteq 0 .. cap - 1 /\ Bounded!Become(q, Bounded!United(batch), cap)
  BY <1>7, <1>8, <1>9
<1> QED BY <1>9, <1>10 DEF Bounded!Collect

\* A boxed result is as long as the longest set of the batch.
LEMMA Longest ==
  ASSUME TypeOK, NEW batch \in Batches
  PROVE  \E n \in 0 .. MaxLen :
           /\ UNION {DOMAIN store[batch[i]] : i \in DOMAIN batch} = 0 .. n - 1
           /\ \A i \in DOMAIN batch : DOMAIN store[batch[i]] \subseteq 0 .. n - 1
           /\ n * BITS_PER =
                Bounded!Max({0} \cup {[r \in Names |-> Capacity(store[r])][batch[i]] : i \in DOMAIN batch})
<1> DEFINE Size == [i \in DOMAIN batch |-> NumWords(store[batch[i]])]
           T == {n \in 0 .. MaxLen : \A i \in DOMAIN batch : Size[i] <= n}
<1>1. ASSUME NEW i \in DOMAIN batch
      PROVE  /\ Size[i] \in 0 .. MaxLen /\ DOMAIN store[batch[i]] = 0 .. Size[i] - 1
             /\ [r \in Names |-> Capacity(store[r])][batch[i]] = Size[i] * BITS_PER
  <2>1. batch[i] \in Names
    BY BatchNames
  <2>2. PICK n \in 0 .. MaxLen : store[batch[i]] \in Words(n)
    BY <2>1, SetWords
  <2>3. /\ NumWords(store[batch[i]]) = n /\ DOMAIN store[batch[i]] = 0 .. n - 1
        /\ Capacity(store[batch[i]]) = n * BITS_PER
    BY <2>2, Shape
  <2> QED BY <2>1, <2>2, <2>3
<1> HIDE DEF Size
<1>12. \A i \in DOMAIN batch : Size[i] \in Nat /\ Size[i] <= MaxLen
  <2> SUFFICES ASSUME NEW i \in DOMAIN batch PROVE Size[i] \in Nat /\ Size[i] <= MaxLen
    OBVIOUS
  <2>1. Size[i] \in 0 .. MaxLen
    BY <1>1
  <2> QED BY <2>1, SliceAssumption
<1>2. MaxLen \in T /\ T \subseteq Nat /\ MaxLen \in Nat
  BY <1>12, SliceAssumption
<1>3. PICK n \in T : \A l \in T : n <= l
  BY <1>2, LeastNat
<1>4. n \in 0 .. MaxLen /\ \A i \in DOMAIN batch : Size[i] <= n
  BY <1>3
<1>5. ASSUME NEW k \in 0 .. n - 1 PROVE \E i \in DOMAIN batch : ~ (Size[i] <= k)
  <2>1. k \in 0 .. MaxLen /\ ~ (n <= k)
    BY <1>2, <1>4
  <2> QED BY <1>3, <2>1
<1>6. UNION {DOMAIN store[batch[i]] : i \in DOMAIN batch} = 0 .. n - 1
  <2>1. ASSUME NEW i \in DOMAIN batch, NEW k \in DOMAIN store[batch[i]] PROVE k \in 0 .. n - 1
    <3>1. k \in 0 .. Size[i] - 1
      BY <1>1, <2>1
    <3> QED BY <1>4, <1>12, <3>1
  <2>2. ASSUME NEW k \in 0 .. n - 1 PROVE \E i \in DOMAIN batch : k \in DOMAIN store[batch[i]]
    <3>1. PICK i \in DOMAIN batch : ~ (Size[i] <= k)
      BY <1>5
    <3>2. k \in 0 .. Size[i] - 1
      BY <1>12, <3>1
    <3>3. DOMAIN store[batch[i]] = 0 .. Size[i] - 1
      BY <1>1
    <3> QED BY <3>2, <3>3
  <2> QED BY <2>1, <2>2
<1>7. \A i \in DOMAIN batch : DOMAIN store[batch[i]] \subseteq 0 .. n - 1
  BY <1>6
<1> DEFINE caps == {0} \cup {[r \in Names |-> Capacity(store[r])][batch[i]] : i \in DOMAIN batch}
           cap == n * BITS_PER
<1>8. cap \in caps
  <2>1. CASE n = 0
    BY <2>1, SliceAssumption
  <2>2. CASE n # 0
    <3>1. n - 1 \in 0 .. n - 1
      BY <1>4, <2>2
    <3>2. PICK i \in DOMAIN batch : ~ (Size[i] <= n - 1)
      BY <1>5, <3>1
    <3>3. Size[i] = n
      BY <1>12, <1>4, <3>2
    <3> QED BY <1>1, <3>3
  <2> QED BY <2>1, <2>2
<1>9. cap \in Nat /\ \A x \in caps : x \in Nat /\ x <= cap
  <2>1. cap \in Nat
    BY <1>4, Products
  <2>2. ASSUME NEW i \in DOMAIN batch
        PROVE  Size[i] * BITS_PER \in Nat /\ Size[i] * BITS_PER <= n * BITS_PER
    BY <1>4, <1>12, Products
  <2>3. \A i \in DOMAIN batch : [r \in Names |-> Capacity(store[r])][batch[i]] = Size[i] * BITS_PER
    BY <1>1
  <2>4. \A i \in DOMAIN batch : LET x == [r \in Names |-> Capacity(store[r])][batch[i]] IN
          x \in Nat /\ x <= cap
    BY <2>2, <2>3
  <2>5. 0 \in Nat /\ 0 <= cap
    BY <2>1
  <2> HIDE DEF cap
  <2> QED BY <2>1, <2>4, <2>5
<1>10. cap = Bounded!Max(caps)
  <2> HIDE DEF cap, caps
  <2>1. caps \subseteq Nat
    BY <1>9
  <2> QED BY <1>8, <1>9, <2>1, MaxIs
<1> QED BY <1>4, <1>6, <1>7, <1>10

LEMMA BoxCollectStep ==
  ASSUME TypeOK, NEW q \in Names, Is(q, "boxed"), NEW batch \in Batches,
         BoxCollect(q, batch), UNCHANGED kind
  PROVE  TypeOK' /\ Bounded!Collect(q, batch)
<1>1. PICK n \in 0 .. MaxLen :
         /\ UNION {DOMAIN store[batch[i]] : i \in DOMAIN batch} = 0 .. n - 1
         /\ \A i \in DOMAIN batch : DOMAIN store[batch[i]] \subseteq 0 .. n - 1
         /\ n * BITS_PER =
              Bounded!Max({0} \cup {[r \in Names |-> Capacity(store[r])][batch[i]] : i \in DOMAIN batch})
  BY Longest
<1>2. Put(q, [k \in 0 .. n - 1 |-> OrAt(batch, k)]) /\ Answer("collect", {})
  BY <1>1 DEF BoxCollect
<1>3. Words(n) \subseteq Stores(kind[q])
  BY DEF Is, Stores, BoxedStores
<1> QED BY <1>1, <1>2, <1>3, CollectStep

\* Arrays, or primitives, of one type have one length.
LEMMA AlikeWords ==
  ASSUME TypeOK, NEW r \in Names, ~ Is(r, "boxed"), NEW batch \in Batches, Alike(r, batch)
  PROVE  /\ \A i \in DOMAIN batch : DOMAIN store[batch[i]] = DOMAIN store[r]
         /\ \A k \in DOMAIN store[r] : AllAt(batch, k) = OrAt(batch, k)
<1>1. ASSUME NEW i \in DOMAIN batch PROVE DOMAIN store[batch[i]] = DOMAIN store[r]
  <2>1. batch[i] \in Names /\ kind[batch[i]] = kind[r]
    BY BatchNames DEF Alike
  <2>2. PICK n \in 0 .. MaxLen : /\ store[r] \in Words(n)
                                 /\ Is(r, "array") => n = MaxLen
                                 /\ Is(r, "prim") => n = 1
    BY SetWords
  <2>3. PICK l \in 0 .. MaxLen : /\ store[batch[i]] \in Words(l) /\ (Is(batch[i], "array") => l = MaxLen)
                                 /\ (Is(batch[i], "prim") => l = 1)
    BY <2>1, SetWords
  <2>4. kind[r] \in {"boxed", "array", "prim"}
    BY ProgramAssumption DEF TypeOK
  <2>5. n = l
    BY <2>1, <2>2, <2>3, <2>4 DEF Is
  <2> QED BY <2>2, <2>3, <2>5 DEF Words
<1>2. \A k \in DOMAIN store[r] : {j \in DOMAIN batch : k \in DOMAIN store[batch[j]]} = DOMAIN batch
  BY <1>1
<1> QED BY <1>1, <1>2 DEF AllAt, OrAt

LEMMA ExtendSetsStep ==
  ASSUME TypeOK, NEW r \in Names, ~ Is(r, "boxed"), NEW batch \in Batches, Alike(r, batch),
         ExtendSets(r, batch), UNCHANGED kind
  PROVE  TypeOK' /\ Bounded!Extend(r, batch)
<1>1. [k \in DOMAIN store[r] |-> store[r][k] \cup AllAt(batch, k)] =
      [k \in DOMAIN store[r] |-> store[r][k] \cup OrAt(batch, k)]
  BY AlikeWords
<1> QED BY <1>1, ExtendStep DEF ExtendSets

LEMMA CollectSetsStep ==
  ASSUME TypeOK, NEW r \in Names, ~ Is(r, "boxed"), NEW batch \in Batches, Alike(r, batch),
         CollectSets(r, batch), UNCHANGED kind
  PROVE  TypeOK' /\ Bounded!Collect(r, batch)
<1>1. PICK n \in 0 .. MaxLen : store[r] \in Words(n) /\ Words(n) \subseteq Stores(kind[r])
  BY SetWords
<1>2. DOMAIN store[r] = 0 .. n - 1 /\ Capacity(store[r]) = n * BITS_PER
  BY <1>1, Shape
<1>3. [k \in DOMAIN store[r] |-> AllAt(batch, k)] = [k \in 0 .. n - 1 |-> OrAt(batch, k)]
  BY <1>2, AlikeWords
<1>4. \A i \in DOMAIN batch : DOMAIN store[batch[i]] \subseteq 0 .. n - 1
  BY <1>2, AlikeWords
<1>5. Put(r, [k \in 0 .. n - 1 |-> OrAt(batch, k)]) /\ Answer("collect", {})
  BY <1>3 DEF CollectSets
<1> QED BY <1>1, <1>2, <1>4, <1>5, CollectStep

-----------------------------------------------------------------------------
\* Arrays and primitives: construction and elements.

LEMMA NewStep ==
  ASSUME TypeOK, NEW r \in Names, New(r), UNCHANGED kind
  PROVE  TypeOK' /\ Bounded!New(r)
<1>1. PICK n \in 0 .. MaxLen : store[r] \in Words(n) /\ Words(n) \subseteq Stores(kind[r])
  BY SetWords
<1>2. Zero(n) \in Words(n) /\ Members(Zero(n)) = {}
  BY ZeroMembers
<1>3. Put(r, Zero(n)) /\ Answer("new", {})
  BY <1>1, Shape DEF New
<1>4. TypeOK' /\ Bounded!Change(r, Members(Zero(n)))
  BY <1>1, <1>2, <1>3, NothingFine, ChangeStep
<1> QED BY <1>2, <1>3, <1>4 DEF Bounded!New, Bounded!Answer, Answer

LEMMA AddingMembers ==
  ASSUME NEW n \in Nat, NEW a \in Words(n), NEW ids \in SUBSET Nat
  PROVE  /\ Adding(a, ids) \in Words(n)
         /\ Members(Adding(a, ids)) = Members(a) \cup (ids \cap (0 .. n * BITS_PER - 1))
<1> DEFINE c == Adding(a, ids)
<1>1. DOMAIN a = 0 .. n - 1 /\ \A k \in 0 .. n - 1 : a[k] \in SUBSET Bits
  BY Shape
<1>2. \A i \in ids : Mask(i) \in Bits
  BY SplitIndex
<1>3. /\ c \in Words(n)
      /\ \A k \in 0 .. n - 1 : \A b : b \in c[k] <=> b \in a[k] \/ \E i \in ids : Seg(i) = k /\ b = Mask(i)
  BY <1>1, <1>2 DEF Adding, Words
<1>4. \A x : x \in 0 .. n * BITS_PER - 1 <=> x \in Nat /\ Seg(x) \in 0 .. n - 1
  BY BelowIff
<1>5. \A x : x \in Members(a) <=> x \in Nat /\ Seg(x) \in 0 .. n - 1 /\ Mask(x) \in a[Seg(x)]
  BY MemberIff
<1>6. \A x, y \in Nat : Seg(x) = Seg(y) /\ Mask(x) = Mask(y) => x = y
  BY SplitIndex
<1> HIDE DEF c
<1>7. \A x : x \in Members(c) <=> x \in Nat /\ Seg(x) \in 0 .. n - 1 /\ Mask(x) \in c[Seg(x)]
  BY <1>3, MemberIff
<1>8. ASSUME NEW x PROVE x \in Members(c) <=> x \in Members(a) \cup (ids \cap (0 .. n * BITS_PER - 1))
  <2>1. x \in Nat => ((\E i \in ids : Seg(i) = Seg(x) /\ Mask(x) = Mask(i)) <=> x \in ids)
    BY <1>6
  <2> QED BY <1>3, <1>4, <1>5, <1>7, <2>1
<1>9. Members(c) = Members(a) \cup (ids \cap (0 .. n * BITS_PER - 1))
  BY <1>8
<1> QED BY <1>3, <1>9 DEF c

LEMMA OutOfRangeStep ==
  ASSUME TypeOK, NEW r \in Names, NEW x \in Nat, x >= Capacity(store[r]),
         Panic, UNCHANGED <<store, kind>>
  PROVE  TypeOK' /\ Bounded!OutOfRange(r, x)
<1>1. PICK n \in 0 .. MaxLen : store[r] \in Words(n)
  BY SetWords
<1>2. /\ Capacity(store[r]) = n * BITS_PER /\ n * BITS_PER \in Nat
      /\ Bounded!Below(r) = 0 .. n * BITS_PER - 1
  BY <1>1, View
<1>3. x \notin Bounded!Below(r)
  BY <1>2
<1>4. TypeOK' /\ UNCHANGED <<[q \in Names |-> Members(store[q])], [q \in Names |-> Capacity(store[q])]>>
  BY NothingFine, SameStep
<1> QED BY <1>3, <1>4 DEF Bounded!OutOfRange, Panic

\* A panic on an index that no call of the abstraction has: it is one on the
\* first index that is out of range.
LEMMA PanicStep ==
  ASSUME TypeOK, NEW r \in Names, Panic, UNCHANGED <<store, kind>>
  PROVE  TypeOK' /\ \E x \in 0 .. MaxLen * BITS_PER : Bounded!OutOfRange(r, x)
<1>1. PICK n \in 0 .. MaxLen : store[r] \in Words(n)
  BY SetWords
<1> DEFINE x == Capacity(store[r])
<1>2. x = n * BITS_PER /\ n * BITS_PER \in Nat /\ n * BITS_PER <= MaxLen * BITS_PER
  BY <1>1, View, Products, SliceAssumption
<1>3. MaxLen * BITS_PER \in Nat
  BY Products, SliceAssumption
<1>4. x \in 0 .. MaxLen * BITS_PER /\ x \in Nat /\ x >= Capacity(store[r])
  BY <1>2, <1>3
<1> HIDE DEF x
<1>5. TypeOK' /\ Bounded!OutOfRange(r, x)
  BY <1>4, OutOfRangeStep
<1> QED BY <1>4, <1>5

LEMMA FromElementStep ==
  ASSUME TypeOK, NEW r \in Names, NEW x \in Nat, FromElement(r, x), UNCHANGED kind
  PROVE  TypeOK' /\ (Bounded!FromElement(r, x) \/ Bounded!OutOfRange(r, x))
<1>1. PICK n \in 0 .. MaxLen : store[r] \in Words(n) /\ Words(n) \subseteq Stores(kind[r])
  BY SetWords
<1>2. /\ Capacity(store[r]) = n * BITS_PER /\ n * BITS_PER \in Nat /\ NumWords(store[r]) = n
      /\ Bounded!Below(r) = 0 .. n * BITS_PER - 1
  BY <1>1, View, Shape
<1>3. CASE Checked(r, x)
  <2> DEFINE c == Adding(Zero(n), {x})
  <2>1. Zero(n) \in Words(n) /\ Members(Zero(n)) = {}
    BY ZeroMembers
  <2>2. c \in Words(n) /\ Members(c) = Members(Zero(n)) \cup ({x} \cap (0 .. n * BITS_PER - 1))
    BY <2>1, AddingMembers
  <2>3. x \in Bounded!Below(r) /\ Put(r, c) /\ Answer("from_element", {})
    BY <1>2, <1>3 DEF FromElement, Checked
  <2> HIDE DEF c
  <2>4. Members(c) = {x}
    BY <1>2, <2>1, <2>2, <2>3
  <2>5. TypeOK' /\ Bounded!Change(r, Members(c))
    BY <1>1, <2>2, <2>3, NothingFine, ChangeStep
  <2> QED BY <2>3, <2>4, <2>5 DEF Bounded!FromElement, Bounded!Answer, Answer
<1>4. CASE ~ Checked(r, x)
  <2>1. x >= Capacity(store[r]) /\ Panic /\ UNCHANGED <<store, kind>>
    BY <1>2, <1>4 DEF FromElement, Checked
  <2> QED BY <2>1, OutOfRangeStep
<1> QED BY <1>3, <1>4

\* The elements that go in before a panic.
LEMMA ElemsAgree ==
  ASSUME TypeOK, NEW r \in Names, NEW elems \in Elems
  PROVE  /\ InRange(r, elems) <=> Bounded!Fits(r, elems)
         /\ BeforePanic(r, elems) = Bounded!Fitting(r, elems)
         /\ BeforePanic(r, elems) \subseteq Bounded!Below(r)
         /\ BeforePanic(r, elems) \in SUBSET Nat
<1>1. PICK n \in 0 .. MaxLen : store[r] \in Words(n)
  BY SetWords
<1>2. /\ Capacity(store[r]) = n * BITS_PER /\ n * BITS_PER \in Nat
      /\ Bounded!Below(r) = 0 .. n * BITS_PER - 1
  BY <1>1, View
<1>3. elems \in Seq(Nat) /\ Len(elems) \in Nat /\ DOMAIN elems = 1 .. Len(elems)
  BY ProgramAssumption
<1>4. \A j \in DOMAIN elems : elems[j] \in Nat
  BY <1>3
<1>5. \A j \in DOMAIN elems : Checked(r, elems[j]) <=> elems[j] \in Bounded!Below(r)
  BY <1>2, <1>4 DEF Checked
<1>6. \A l \in DOMAIN elems : l \in 1 .. l /\ 1 .. l \subseteq DOMAIN elems
  BY <1>3
<1>7. \A l \in DOMAIN elems : (\A m \in 1 .. l : Checked(r, elems[m]))
                                <=> (\A m \in 1 .. l : elems[m] \in Bounded!Below(r))
  BY <1>5, <1>6
<1>8. InRange(r, elems) <=> Bounded!Fits(r, elems)
  BY <1>5 DEF InRange, Bounded!Fits
<1>9. {l \in DOMAIN elems : \A m \in 1 .. l : Checked(r, elems[m])} =
      {l \in DOMAIN elems : \A m \in 1 .. l : elems[m] \in Bounded!Below(r)}
  BY <1>7
<1>10. BeforePanic(r, elems) = Bounded!Fitting(r, elems)
  BY <1>9 DEF BeforePanic, Bounded!Fitting
<1>11. BeforePanic(r, elems) \subseteq Bounded!Below(r)
  BY <1>5, <1>6 DEF BeforePanic
<1> QED BY <1>2, <1>8, <1>10, <1>11

LEMMA ExtendElemsStep ==
  ASSUME TypeOK, NEW r \in Names, NEW elems \in Elems, ExtendElems(r, elems), UNCHANGED kind
  PROVE  TypeOK' /\ Bounded!ExtendElems(r, elems)
<1>1. PICK n \in 0 .. MaxLen : store[r] \in Words(n) /\ Words(n) \subseteq Stores(kind[r])
  BY SetWords
<1> DEFINE ids == BeforePanic(r, elems)
           a == store[r]
           c == Adding(a, ids)
<1>2. Bounded!Below(r) = 0 .. n * BITS_PER - 1
  BY <1>1, View
<1>3. /\ ids = Bounded!Fitting(r, elems) /\ ids \subseteq 0 .. n * BITS_PER - 1 /\ ids \in SUBSET Nat
      /\ InRange(r, elems) <=> Bounded!Fits(r, elems)
  BY <1>2, ElemsAgree
<1>4. a \in Words(n) /\ n \in Nat
  BY <1>1
<1>5. c \in Words(n) /\ Members(c) = Members(a) \cup ids
  <2>1. c \in Words(n) /\ Members(c) = Members(a) \cup (ids \cap (0 .. n * BITS_PER - 1))
    <3> HIDE DEF ids, a
    <3> QED BY <1>3, <1>4, AddingMembers
  <2> QED BY <1>3, <2>1
<1>6. Put(r, c) /\ IF InRange(r, elems) THEN Answer("extend", {}) ELSE Panic
  BY DEF ExtendElems
<1>7. Fine
  BY <1>6, NothingFine
<1> HIDE DEF c
<1>8. TypeOK' /\ Bounded!Change(r, Members(c))
  BY <1>1, <1>5, <1>6, <1>7, ChangeStep
<1>9. Bounded!Change(r, Members(a) \cup Bounded!Fitting(r, elems))
  BY <1>3, <1>5, <1>8
<1> QED BY <1>3, <1>6, <1>8, <1>9 DEF Bounded!ExtendElems, Bounded!Answer, Answer, Panic

LEMMA CollectElemsStep ==
  ASSUME TypeOK, NEW r \in Names, NEW elems \in Elems, CollectElems(r, elems), UNCHANGED kind
  PROVE  /\ TypeOK'
         /\ \/ Bounded!CollectElems(r, elems)
            \/ \E x \in 0 .. MaxLen * BITS_PER : Bounded!OutOfRange(r, x)
<1>1. PICK n \in 0 .. MaxLen : store[r] \in Words(n) /\ Words(n) \subseteq Stores(kind[r])
  BY SetWords
<1> DEFINE ids == BeforePanic(r, elems)
           c == Adding(Zero(n), ids)
<1>2. Bounded!Below(r) = 0 .. n * BITS_PER - 1 /\ NumWords(store[r]) = n
  BY <1>1, View, Shape
<1>3. /\ ids = Bounded!Fitting(r, elems) /\ ids \subseteq 0 .. n * BITS_PER - 1 /\ ids \in SUBSET Nat
      /\ InRange(r, elems) <=> Bounded!Fits(r, elems)
  BY <1>2, ElemsAgree
<1>4. CASE InRange(r, elems)
  <2>1. Zero(n) \in Words(n) /\ Members(Zero(n)) = {} /\ n \in Nat
    BY ZeroMembers
  <2>2. c \in Words(n) /\ Members(c) = ids
    <3>1. c \in Words(n) /\ Members(c) = Members(Zero(n)) \cup (ids \cap (0 .. n * BITS_PER - 1))
      <4> HIDE DEF ids
      <4> QED BY <1>3, <2>1, AddingMembers
    <3> QED BY <1>3, <2>1, <3>1
  <2>3. Put(r, c) /\ Answer("collect", {})
    BY <1>2, <1>4 DEF CollectElems
  <2> HIDE DEF c
  <2>4. TypeOK' /\ Bounded!Change(r, Members(c))
    BY <1>1, <2>2, <2>3, NothingFine, ChangeStep
  <2> QED BY <1>3, <1>4, <2>2, <2>3, <2>4 DEF Bounded!CollectElems, Bounded!Answer, Answer
<1>5. CASE ~ InRange(r, elems)
  BY <1>5, PanicStep DEF CollectElems
<1> QED BY <1>4, <1>5

-----------------------------------------------------------------------------
\* A primitive is one word, and its bits are its indices.

LEMMA OneWord ==
  ASSUME NEW a \in Words(1)
  PROVE  Members(a) = a[0] /\ a[0] \in SUBSET Bits /\ 0 \in DOMAIN a
<1>1. DOMAIN a = 0 .. 0 /\ a[0] \in SUBSET Bits /\ 0 \in DOMAIN a
  <2>1. DOMAIN a = 0 .. 1 - 1 /\ \A k \in DOMAIN a : a[k] \in SUBSET Bits
    BY Shape
  <2>2. 0 .. 1 - 1 = 0 .. 0 /\ 0 \in 0 .. 0
    OBVIOUS
  <2> QED BY <2>1, <2>2
<1>2. \A x : x \in Members(a) <=> x \in Nat /\ Seg(x) = 0 /\ Mask(x) \in a[0]
  BY MemberIff
<1>3. ASSUME NEW x \in Nat, Seg(x) = 0 PROVE Mask(x) = x
  BY <1>3, SplitIndex, SliceAssumption DEF IdxOf, Bits
<1>4. ASSUME NEW b \in Bits PROVE b \in Nat /\ Seg(b) = 0 /\ Mask(b) = b
  <2>1. b \in Nat /\ BITS_PER \in Nat
    BY SliceAssumption DEF Bits
  <2>2. IdxOf(0, b) = b
    BY <2>1 DEF IdxOf
  <2> QED BY <2>1, <2>2, JoinIndex
<1>5. \A x : x \in Members(a) <=> x \in a[0]
  BY <1>1, <1>2, <1>3, <1>4
<1> QED BY <1>1, <1>5

LEMMA PrimView ==
  ASSUME TypeOK, NEW r \in Names, Is(r, "prim")
  PROVE  /\ store[r] \in Words(1) /\ Words(1) \subseteq Stores(kind[r])
         /\ Members(store[r]) = Word(r) /\ Word(r) \in SUBSET Bits
         /\ Capacity(store[r]) = BITS_PER /\ Bounded!Below(r) = Bits
         /\ 1 \in 0 .. MaxLen /\ Bits \subseteq 0 .. MaxLen * BITS_PER - 1
         /\ BITS_PER \in 0 .. MaxLen * BITS_PER
<1>1. PICK n \in 0 .. MaxLen : store[r] \in Words(n) /\ Words(n) \subseteq Stores(kind[r]) /\ n = 1
  BY SetWords
<1>2. Members(store[r]) = Word(r) /\ Word(r) \in SUBSET Bits
  BY <1>1, OneWord DEF Word
<1>3. /\ Capacity(store[r]) = 1 * BITS_PER /\ Bounded!Below(r) = 0 .. 1 * BITS_PER - 1
      /\ 1 * BITS_PER = BITS_PER /\ BITS_PER \in Nat
      /\ 0 .. 1 * BITS_PER - 1 \subseteq 0 .. MaxLen * BITS_PER - 1
  BY <1>1, View, SliceAssumption
<1>4. MaxLen * BITS_PER \in Nat /\ 1 * BITS_PER <= MaxLen * BITS_PER
  BY <1>1, Products, SliceAssumption
<1>5. BITS_PER \in 0 .. MaxLen * BITS_PER
  BY <1>3, <1>4
<1> QED BY <1>1, <1>2, <1>3, <1>5 DEF Bits

\* A step that writes the word of a primitive.
LEMMA WordStep ==
  ASSUME TypeOK, NEW q \in Names, Is(q, "prim"), NEW word \in SUBSET Bits,
         PutWord(q, word), UNCHANGED kind, Fine
  PROVE  TypeOK' /\ Bounded!Change(q, word) /\ Bounded!Become(q, word, BITS_PER)
<1> DEFINE c == [store[q] EXCEPT ![0] = word]
<1>1. /\ store[q] \in Words(1) /\ Words(1) \subseteq Stores(kind[q]) /\ 1 \in 0 .. MaxLen
      /\ Capacity(store[q]) = BITS_PER
  BY PrimView
<1>2. c \in Words(1) /\ c[0] = word
  BY <1>1, OneWord DEF Words
<1>3. Put(q, c)
  BY DEF PutWord, SetWord, Put
<1> HIDE DEF c
<1>4. Members(c) = word
  BY <1>2, OneWord
<1>5. TypeOK' /\ Bounded!Change(q, Members(c))
  BY <1>1, <1>2, <1>3, ChangeStep
<1> QED BY <1>1, <1>4, <1>5 DEF Bounded!Change

\* The same for a call that answers with no index.
LEMMA WordDone ==
  ASSUME TypeOK, NEW q \in Names, Is(q, "prim"), NEW word \in SUBSET Bits,
         PutWord(q, word), UNCHANGED kind, NEW call, Answer(call, {})
  PROVE  /\ TypeOK' /\ Bounded!Change(q, word) /\ Bounded!Become(q, word, BITS_PER)
         /\ Bounded!Answer(call, {})
<1>1. Fine
  BY NothingFine
<1>2. TypeOK' /\ Bounded!Change(q, word) /\ Bounded!Become(q, word, BITS_PER)
  BY <1>1, WordStep
<1> QED BY <1>2 DEF Bounded!Answer, Answer

LEMMA BitFine ==
  ASSUME TypeOK, NEW r \in Names, Is(r, "prim"), NEW call, NEW ids \in SUBSET Bits, Answer(call, ids)
  PROVE  Fine
BY PrimView DEF Answer, Fine

PrimAtIndex(r, i) ==
  \/ FromIndex(r, i) \/ PrimCheck(r, i) \/ PrimSet(r, i) \/ PrimInsert(r, i)
  \/ PrimRemove(r, i) \/ PrimToggle(r, i) \/ PrimContains(r, i)

LEMMA PrimAtIndexStep ==
  ASSUME TypeOK, NEW r \in Names, Is(r, "prim"), NEW x \in Nat, PrimAtIndex(r, x), UNCHANGED kind
  PROVE  TypeOK' /\ (AbstractAtIndex(r, x) \/ Bounded!FromElement(r, x))
<1> DEFINE m == Members(store[r])
<1>1. m = Word(r) /\ m \in SUBSET Bits /\ Capacity(store[r]) = BITS_PER /\ Bounded!Below(r) = Bits
  BY PrimView
<1>2. BITS = BITS_PER /\ BITS_PER \in Nat /\ \A i \in Nat : i \in Bits <=> ~ (i >= BITS_PER)
  BY SliceAssumption DEF BITS, Bits
<1>3. ASSUME x >= BITS, Panic, UNCHANGED store PROVE TypeOK' /\ AbstractAtIndex(r, x)
  <2>1. TypeOK' /\ Bounded!OutOfRange(r, x)
    BY <1>1, <1>2, <1>3, OutOfRangeStep
  <2> QED BY <2>1 DEF AbstractAtIndex
<1>4. ASSUME x \in Bits PROVE m \cup {x} \in SUBSET Bits /\ m \ {x} \in SUBSET Bits /\ {x} \in SUBSET Bits
  BY <1>1, <1>4
<1>5. CASE FromIndex(r, x)
  <2>1. CASE x >= BITS
    BY <1>3, <1>5, <2>1 DEF FromIndex
  <2>2. CASE ~ (x >= BITS)
    <3>1. x \in Bits /\ PutWord(r, {x}) /\ Answer("from_element", {})
      BY <1>2, <1>5, <2>2 DEF FromIndex
    <3>2. TypeOK' /\ Bounded!Change(r, {x}) /\ Bounded!Answer("from_element", {})
      BY <1>4, <3>1, WordDone
    <3> QED BY <1>1, <3>1, <3>2 DEF Bounded!FromElement
  <2> QED BY <2>1, <2>2
<1>6. CASE PrimCheck(r, x)
  BY <1>3, <1>6 DEF PrimCheck
<1>7. CASE PrimSet(r, x)
  <2>1. x \in Bits
    <3>1. x < BITS
      BY <1>7 DEF PrimSet
    <3> QED BY <1>2, <3>1
  <2>2. CASE PutWord(r, Word(r) \cup {x}) /\ Answer("set true", {})
    <3>1. TypeOK' /\ Bounded!Change(r, m \cup {x}) /\ Bounded!Answer("set true", {})
      BY <1>1, <1>4, <2>1, <2>2, WordDone
    <3> QED BY <1>1, <2>1, <3>1 DEF AbstractAtIndex, Bounded!Assign
  <2>3. CASE /\ IF x \in Word(r) THEN PutWord(r, Word(r) \ {x}) ELSE UNCHANGED store
             /\ Answer("set false", {})
    <3>1. TypeOK' /\ Bounded!Change(r, m \ {x})
      <4>1. CASE x \in m
        BY <1>1, <1>4, <2>1, <2>3, <4>1, WordDone
      <4>2. CASE x \notin m
        <5>1. UNCHANGED store /\ m \ {x} = m
          BY <1>1, <2>3, <4>2
        <5> QED BY <2>3, <5>1, NothingFine, SameStep
      <4> QED BY <4>1, <4>2
    <3> QED BY <1>1, <2>1, <2>3, <3>1 DEF AbstractAtIndex, Bounded!Assign, Bounded!Answer, Answer
  <2> QED BY <1>7, <2>2, <2>3 DEF PrimSet
<1>8. CASE PrimInsert(r, x)
  <2>1. x \in Bits /\ PutWord(r, m \cup {x}) /\ Answer("insert", {x} \ m) /\ {x} \ m \in SUBSET Bits
    BY <1>1, <1>2, <1>8 DEF PrimInsert
  <2>2. Fine
    BY <2>1, BitFine
  <2>3. TypeOK' /\ Bounded!Change(r, m \cup {x})
    BY <1>4, <2>1, <2>2, WordStep
  <2> QED BY <1>1, <2>1, <2>3 DEF AbstractAtIndex, Bounded!Insert, Bounded!Answer, Answer
<1>9. CASE PrimRemove(r, x)
  <2>1. x \in Bits /\ Answer("remove", {x} \cap m) /\ {x} \cap m \in SUBSET Bits
    BY <1>1, <1>2, <1>9 DEF PrimRemove
  <2>2. Fine
    BY <2>1, BitFine
  <2>3. TypeOK' /\ Bounded!Change(r, m \ {x})
    <3>1. CASE x \in m
      BY <1>1, <1>4, <1>9, <2>1, <2>2, <3>1, WordStep DEF PrimRemove
    <3>2. CASE x \notin m
      <4>1. UNCHANGED store /\ m \ {x} = m
        BY <1>1, <1>9, <3>2 DEF PrimRemove
      <4> QED BY <2>2, <4>1, SameStep
    <3> QED BY <3>1, <3>2
  <2> QED BY <1>1, <2>1, <2>3 DEF AbstractAtIndex, Bounded!Remove, Bounded!Answer, Answer
<1>10. CASE PrimToggle(r, x)
  <2>1. x \in Bits /\ PutWord(r, XorWord(m, {x})) /\ Answer("toggle", {})
    BY <1>1, <1>2, <1>10 DEF PrimToggle
  <2>2. x \in m => XorWord(m, {x}) = m \ {x}
    BY DEF XorWord
  <2>3. x \notin m => XorWord(m, {x}) = m \cup {x}
    BY DEF XorWord
  <2>4. /\ TypeOK' /\ Bounded!Answer("toggle", {})
        /\ x \in m => Bounded!Change(r, m \ {x})
        /\ x \notin m => Bounded!Change(r, m \cup {x})
    <3>1. CASE x \in m
      BY <1>4, <2>1, <2>2, <3>1, WordDone
    <3>2. CASE x \notin m
      BY <1>4, <2>1, <2>3, <3>2, WordDone
    <3> QED BY <3>1, <3>2
  <2> QED BY <1>1, <2>1, <2>4 DEF AbstractAtIndex, Bounded!Toggle
<1>11. CASE PrimContains(r, x)
  <2>1. /\ x \in Bits /\ Answer("contains", {x} \cap m) /\ {x} \cap m \in SUBSET Bits
        /\ UNCHANGED store
    BY <1>1, <1>2, <1>11 DEF PrimContains
  <2>2. TypeOK' /\ UNCHANGED <<[q \in Names |-> Members(store[q])], [q \in Names |-> Capacity(store[q])]>>
    BY <2>1, BitFine, SameStep
  <2> QED BY <1>1, <2>1, <2>2 DEF AbstractAtIndex, Bounded!Contains, Bounded!Answer, Answer
<1> QED BY <1>5, <1>6, <1>7, <1>8, <1>9, <1>10, <1>11 DEF PrimAtIndex

\* The other calls on a primitive.

LEMMA PrimDrainStep ==
  ASSUME TypeOK, NEW r \in Names, Is(r, "prim"), PrimDrain(r), UNCHANGED kind
  PROVE  TypeOK' /\ Bounded!Drain(r)
<1> DEFINE m == Members(store[r])
<1>1. m = Word(r) /\ m \in SUBSET Bits /\ BITS_PER \in 0 .. MaxLen * BITS_PER
  BY PrimView
<1>2. PICK j \in 0 .. BITS_PER : Answer("drain", {x \in m : x < j})
  BY <1>1 DEF PrimDrain, BITS
<1>3. PutWord(r, {}) /\ {x \in m : x < j} \in SUBSET Bits
  BY <1>1 DEF PrimDrain
<1>4. Fine
  BY <1>2, <1>3, BitFine
<1>5. TypeOK' /\ Bounded!Change(r, {})
  BY <1>3, <1>4, WordStep
<1>6. j \in 0 .. MaxLen * BITS_PER
  <2>1. BITS_PER \in Nat /\ MaxLen * BITS_PER \in Nat /\ BITS_PER <= MaxLen * BITS_PER
    BY <1>1, Products, SliceAssumption
  <2> QED BY <2>1
<1>7. \E l \in 0 .. MaxLen * BITS_PER :
        Bounded!Answer("drain", {x \in [q \in Names |-> Members(store[q])][r] : x < l})
  BY <1>2, <1>6 DEF Bounded!Answer, Answer
<1> QED BY <1>5, <1>7 DEF Bounded!Drain

LEMMA FromIndicesStep ==
  ASSUME TypeOK, NEW r \in Names, Is(r, "prim"), NEW ids \in SUBSET Nat,
         FromIndices(r, ids), UNCHANGED kind
  PROVE  /\ TypeOK'
         /\ \/ Bounded!FromIndices(r, ids)
            \/ \E x \in 0 .. MaxLen * BITS_PER : Bounded!OutOfRange(r, x)
<1>1. Bounded!Below(r) = Bits
  BY PrimView
<1>2. CASE ids \subseteq Bits /\ PutWord(r, ids) /\ Answer("from_indices", {})
  <2>1. TypeOK' /\ Bounded!Change(r, ids) /\ Bounded!Answer("from_indices", {})
    BY <1>2, WordDone
  <2> QED BY <1>1, <1>2, <2>1 DEF Bounded!FromIndices
<1>3. CASE Panic /\ UNCHANGED store
  BY <1>3, PanicStep
<1>4. CASE /\ ~ (ids \subseteq Bits) /\ PutWord(r, {i % BITS : i \in ids})
           /\ Answer("from_indices", {})
  <2> DEFINE wrapped == {i % BITS : i \in ids}
  <2>1. wrapped \in SUBSET Bits
    BY SliceAssumption DEF BITS, Bits
  <2>2. PutWord(r, wrapped)
    BY <1>4
  <2> HIDE DEF wrapped
  <2>3. TypeOK' /\ Bounded!Change(r, wrapped) /\ Bounded!Answer("from_indices", {})
    BY <1>4, <2>1, <2>2, WordDone
  <2> QED BY <1>1, <1>4, <2>1, <2>3 DEF Bounded!FromIndices
<1> QED BY <1>2, <1>3, <1>4 DEF FromIndices

LEMMA PrimUnionStep ==
  ASSUME TypeOK, NEW q \in Names, NEW r \in Names, Is(q, "prim"), Is(r, "prim"),
         NEW word \in SUBSET Bits, PrimUnion(q, r, word), UNCHANGED kind
  PROVE  TypeOK' /\ Bounded!OperatorOn(q, r, word)
<1> DEFINE m == Members(store[r])
<1>1. m = Word(r) /\ m \in SUBSET Bits /\ Capacity(store[r]) = BITS_PER
  BY PrimView
<1>2. m \cup word \in SUBSET Bits /\ m \ word \in SUBSET Bits
  BY <1>1
<1>3. CASE PutWord(q, OrWord(Word(r), word)) /\ Answer("union", {})
  <2>1. PutWord(q, m \cup word)
    BY <1>1, <1>3 DEF OrWord
  <2>2. TypeOK' /\ Bounded!Become(q, m \cup word, BITS_PER) /\ Bounded!Answer("union", {})
    BY <1>2, <1>3, <2>1, WordDone
  <2> QED BY <1>1, <2>2 DEF Bounded!OperatorOn
<1>4. CASE PutWord(q, SubWord(Word(r), word)) /\ Answer("difference", {})
  <2>1. PutWord(q, m \ word)
    BY <1>1, <1>4 DEF SubWord
  <2>2. TypeOK' /\ Bounded!Become(q, m \ word, BITS_PER) /\ Bounded!Answer("difference", {})
    BY <1>2, <1>4, <2>1, WordDone
  <2> QED BY <1>1, <2>2 DEF Bounded!OperatorOn
<1> QED BY <1>3, <1>4 DEF PrimUnion

LEMMA PrimUnionFromStep ==
  ASSUME TypeOK, NEW r \in Names, Is(r, "prim"), NEW word \in SUBSET Bits,
         PrimUnionFrom(r, word), UNCHANGED kind
  PROVE  TypeOK' /\ Bounded!InPlaceOn(r, word)
<1> DEFINE m == Members(store[r])
<1>1. m = Word(r) /\ m \cup word \in SUBSET Bits
  BY PrimView
<1>2. PutWord(r, m \cup word) /\ Answer("union_from", {})
  BY <1>1 DEF PrimUnionFrom, OrWord
<1>3. TypeOK' /\ Bounded!Change(r, m \cup word) /\ Bounded!Answer("union_from", {})
  BY <1>1, <1>2, WordDone
<1> QED BY <1>3 DEF Bounded!InPlaceOn

LEMMA PrimComplementStep ==
  ASSUME TypeOK, NEW q \in Names, NEW r \in Names, Is(q, "prim"), Is(r, "prim"),
         PrimComplement(q, r), UNCHANGED kind
  PROVE  TypeOK' /\ Bounded!Complement(q, r)
<1> DEFINE m == Members(store[r])
<1>1. m = Word(r) /\ Capacity(store[r]) = BITS_PER /\ Bounded!Below(r) = Bits
  BY PrimView
<1>2. PutWord(q, Bits \ m) /\ Answer("!", {}) /\ Bits \ m \in SUBSET Bits
  BY <1>1 DEF PrimComplement
<1>3. TypeOK' /\ Bounded!Become(q, Bits \ m, BITS_PER) /\ Bounded!Answer("!", {})
  BY <1>2, WordDone
<1> QED BY <1>1, <1>3 DEF Bounded!Complement

LEMMA PrimOperatorStep ==
  ASSUME TypeOK, NEW q \in Names, NEW r \in Names, NEW s \in Names,
         Is(q, "prim"), Is(r, "prim"), Is(s, "prim"), PrimOperator(q, r, s), UNCHANGED kind
  PROVE  TypeOK' /\ Bounded!Operator(q, r, s)
<1> DEFINE m == Members(store[r])
           n == Members(store[s])
           wide == Bounded!Max({Capacity(store[r]), Capacity(store[s])})
<1>1. /\ m = Word(r) /\ m \in SUBSET Bits /\ Capacity(store[r]) = BITS_PER
      /\ n = Word(s) /\ n \in SUBSET Bits /\ Capacity(store[s]) = BITS_PER
  BY PrimView
<1>2. wide = BITS_PER
  <2>1. Bounded!Max({1 * BITS_PER, 1 * BITS_PER}) = 1 * BITS_PER
    BY MaxOfTwo
  <2>2. 1 * BITS_PER = BITS_PER
    BY SliceAssumption
  <2> QED BY <1>1, <2>1, <2>2
<1> HIDE DEF m, n, wide
<1>3. /\ OrWord(m, n) = m \cup n /\ OrWord(m, n) \in SUBSET Bits
      /\ AndWord(m, n) = m \cap n /\ AndWord(m, n) \in SUBSET Bits
      /\ SubWord(m, n) = m \ n /\ SubWord(m, n) \in SUBSET Bits
      /\ XorWord(m, n) = (m \ n) \cup (n \ m) /\ XorWord(m, n) \in SUBSET Bits
  BY <1>1 DEF OrWord, AndWord, SubWord, XorWord
<1>4. ASSUME NEW word \in SUBSET Bits, PutWord(q, word), NEW call, Answer(call, {})
      PROVE  TypeOK' /\ Bounded!Become(q, word, BITS_PER) /\ Bounded!Answer(call, {})
  BY <1>4, WordDone
<1>5. CASE PutWord(q, OrWord(m, n)) /\ Answer("|", {})
  <2>1. TypeOK' /\ Bounded!Become(q, m \cup n, wide) /\ Bounded!Answer("|", {})
    BY <1>2, <1>3, <1>4, <1>5
  <2> QED BY <2>1 DEF Bounded!Operator, m, n, wide
<1>6. CASE PutWord(q, AndWord(m, n)) /\ Answer("&", {})
  <2>1. TypeOK' /\ Bounded!Become(q, m \cap n, Capacity(store[r])) /\ Bounded!Answer("&", {})
    BY <1>1, <1>3, <1>4, <1>6
  <2> QED BY <2>1 DEF Bounded!Operator, m, n
<1>7. CASE PutWord(q, SubWord(m, n)) /\ Answer("-", {})
  <2>1. TypeOK' /\ Bounded!Become(q, m \ n, Capacity(store[r])) /\ Bounded!Answer("-", {})
    BY <1>1, <1>3, <1>4, <1>7
  <2> QED BY <2>1 DEF Bounded!Operator, m, n
<1>8. CASE PutWord(q, XorWord(m, n)) /\ Answer("^", {})
  <2>1. TypeOK' /\ Bounded!Become(q, (m \ n) \cup (n \ m), wide) /\ Bounded!Answer("^", {})
    BY <1>2, <1>3, <1>4, <1>8
  <2> QED BY <2>1 DEF Bounded!Operator, Bounded!SymmetricDifference, m, n, wide
<1> QED BY <1>1, <1>5, <1>6, <1>7, <1>8 DEF PrimOperator

LEMMA PrimAssignStep ==
  ASSUME TypeOK, NEW r \in Names, NEW s \in Names,
         Is(r, "prim"), Is(s, "prim"), PrimAssign(r, s), UNCHANGED kind
  PROVE  TypeOK' /\ Bounded!InPlace(r, s)
<1> DEFINE m == Members(store[r])
           n == Members(store[s])
<1>1. /\ m = Word(r) /\ m \in SUBSET Bits /\ Bounded!Below(r) = Bits
      /\ n = Word(s) /\ n \in SUBSET Bits
  BY PrimView
<1> HIDE DEF m, n
<1>2. /\ OrWord(m, n) = m \cup n /\ OrWord(m, n) \in SUBSET Bits
      /\ AndWord(m, n) = m \cap n /\ AndWord(m, n) \in SUBSET Bits
      /\ SubWord(m, n) = m \ n /\ SubWord(m, n) \in SUBSET Bits
      /\ XorWord(m, n) = (m \ n) \cup (n \ m) /\ XorWord(m, n) \in SUBSET Bits
  BY <1>1 DEF OrWord, AndWord, SubWord, XorWord
<1>3. ASSUME NEW word \in SUBSET Bits, PutWord(r, word), NEW call, Answer(call, {})
      PROVE  TypeOK' /\ Bounded!Change(r, word) /\ Bounded!Answer(call, {})
  BY <1>3, WordDone
<1>4. CASE PutWord(r, OrWord(m, n)) /\ Answer("|=", {})
  <2>1. TypeOK' /\ Bounded!Change(r, (m \cup n) \cap Bounded!Below(r)) /\ Bounded!Answer("|=", {})
    <3>1. OrWord(m, n) = (m \cup n) \cap Bounded!Below(r)
      BY <1>1, <1>2
    <3>2. TypeOK' /\ Bounded!Change(r, OrWord(m, n)) /\ Bounded!Answer("|=", {})
      BY <1>2, <1>3, <1>4
    <3> QED BY <3>1, <3>2
  <2> QED BY <2>1 DEF Bounded!InPlace, m, n
<1>5. CASE PutWord(r, AndWord(m, n)) /\ Answer("&=", {})
  <2>1. TypeOK' /\ Bounded!Change(r, m \cap n) /\ Bounded!Answer("&=", {})
    BY <1>2, <1>3, <1>5
  <2> QED BY <2>1 DEF Bounded!InPlace, m, n
<1>6. CASE PutWord(r, SubWord(m, n)) /\ Answer("-=", {})
  <2>1. TypeOK' /\ Bounded!Change(r, m \ n) /\ Bounded!Answer("-=", {})
    BY <1>2, <1>3, <1>6
  <2> QED BY <2>1 DEF Bounded!InPlace, m, n
<1>7. CASE PutWord(r, XorWord(m, n)) /\ Answer("^=", {})
  <2>1. /\ TypeOK' /\ Bounded!Answer("^=", {})
        /\ Bounded!Change(r, ((m \ n) \cup (n \ m)) \cap Bounded!Below(r))
    <3>1. XorWord(m, n) = ((m \ n) \cup (n \ m)) \cap Bounded!Below(r)
      BY <1>1, <1>2
    <3>2. TypeOK' /\ Bounded!Change(r, XorWord(m, n)) /\ Bounded!Answer("^=", {})
      BY <1>2, <1>3, <1>7
    <3> QED BY <3>1, <3>2
  <2> QED BY <2>1 DEF Bounded!InPlace, Bounded!SymmetricDifference, m, n
<1> QED BY <1>1, <1>4, <1>5, <1>6, <1>7 DEF PrimAssign

-----------------------------------------------------------------------------
\* Arrays of one length.

LEMMA ArrayView ==
  ASSUME TypeOK, NEW r \in Names, Is(r, "array")
  PROVE  /\ store[r] \in Words(MaxLen) /\ Words(MaxLen) \subseteq Stores(kind[r])
         /\ MaxLen \in 0 .. MaxLen /\ MaxLen \in Nat
         /\ Capacity(store[r]) = MaxLen * BITS_PER
         /\ Bounded!Below(r) = 0 .. MaxLen * BITS_PER - 1
         /\ Members(store[r]) \subseteq 0 .. MaxLen * BITS_PER - 1
<1>1. /\ store[r] \in Words(MaxLen) /\ Words(MaxLen) \subseteq Stores(kind[r])
      /\ MaxLen \in 0 .. MaxLen /\ MaxLen \in Nat
  BY SetWords, SliceAssumption
<1> QED BY <1>1, View

\* Word by word is the same as the loops of the slice.
LEMMA FromFnMembers ==
  ASSUME NEW n \in Nat, NEW a \in Words(n), NEW b \in Words(n)
  PROVE  /\ FromFn(OrWord, a, b) \in Words(n)
         /\ Members(FromFn(OrWord, a, b)) = Members(a) \cup Members(b)
         /\ FromFn(AndWord, a, b) \in Words(n)
         /\ Members(FromFn(AndWord, a, b)) = Members(a) \cap Members(b)
         /\ FromFn(SubWord, a, b) \in Words(n)
         /\ Members(FromFn(SubWord, a, b)) = Members(a) \ Members(b)
         /\ FromFn(XorWord, a, b) \in Words(n)
         /\ Members(FromFn(XorWord, a, b)) = (Members(a) \ Members(b)) \cup (Members(b) \ Members(a))
<1>1. DOMAIN a = DOMAIN b
  BY DEF Words
<1>2. FromFn(OrWord, a, b) = UnionFrom(a, b)
  BY <1>1 DEF FromFn, UnionFrom, Zip
<1>3. FromFn(AndWord, a, b) = IntersectFrom(a, b)
  BY <1>1 DEF FromFn, IntersectFrom, ZeroPast, Zip
<1>4. FromFn(SubWord, a, b) = DifferenceFrom(a, b)
  BY <1>1 DEF FromFn, DifferenceFrom, Zip
<1>5. FromFn(XorWord, a, b) = SymmetricDifferenceFrom(a, b)
  BY <1>1 DEF FromFn, SymmetricDifferenceFrom, Zip
<1>6. Members(a) \subseteq 0 .. n * BITS_PER - 1 /\ Members(b) \subseteq 0 .. n * BITS_PER - 1
  BY MembersBelow
<1>7. /\ FromFn(OrWord, a, b) \in Words(n)
      /\ Members(FromFn(OrWord, a, b)) = Members(a) \cup Members(b)
  <2>1. /\ UnionFrom(a, b) \in Words(n)
        /\ Members(UnionFrom(a, b)) = (Members(a) \cup Members(b)) \cap (0 .. n * BITS_PER - 1)
    BY UnionMembers
  <2> QED BY <1>2, <1>6, <2>1
<1>8. /\ FromFn(AndWord, a, b) \in Words(n)
      /\ Members(FromFn(AndWord, a, b)) = Members(a) \cap Members(b)
  <2>1. IntersectFrom(a, b) \in Words(n) /\ Members(IntersectFrom(a, b)) = Members(a) \cap Members(b)
    BY IntersectMembers
  <2> QED BY <1>3, <2>1
<1>9. /\ FromFn(SubWord, a, b) \in Words(n)
      /\ Members(FromFn(SubWord, a, b)) = Members(a) \ Members(b)
  BY <1>4, DifferenceMembers
<1>10. /\ FromFn(XorWord, a, b) \in Words(n)
       /\ Members(FromFn(XorWord, a, b)) = (Members(a) \ Members(b)) \cup (Members(b) \ Members(a))
  <2>1. /\ SymmetricDifferenceFrom(a, b) \in Words(n)
        /\ Members(SymmetricDifferenceFrom(a, b)) =
             ((Members(a) \ Members(b)) \cup (Members(b) \ Members(a))) \cap (0 .. n * BITS_PER - 1)
    BY SymmetricMembers
  <2> QED BY <1>5, <1>6, <2>1
<1> QED BY <1>7, <1>8, <1>9, <1>10

LEMMA ArrayOperatorStep ==
  ASSUME TypeOK, NEW q \in Names, NEW r \in Names, NEW s \in Names,
         Is(q, "array"), Is(r, "array"), Is(s, "array"), ArrayOperator(q, r, s), UNCHANGED kind
  PROVE  TypeOK' /\ Bounded!Operator(q, r, s)
<1> DEFINE a == store[r]
           b == store[s]
           n == Members(a)
           m == Members(b)
           wide == Bounded!Max({Capacity(a), Capacity(b)})
<1>1. /\ a \in Words(MaxLen) /\ b \in Words(MaxLen) /\ MaxLen \in Nat /\ MaxLen \in 0 .. MaxLen
      /\ Words(MaxLen) \subseteq Stores(kind[q])
      /\ Capacity(a) = MaxLen * BITS_PER /\ Capacity(b) = MaxLen * BITS_PER
  BY ArrayView
<1>2. wide = MaxLen * BITS_PER
  <2>1. Bounded!Max({MaxLen * BITS_PER, MaxLen * BITS_PER}) = MaxLen * BITS_PER
    BY <1>1, MaxOfTwo
  <2> QED BY <1>1, <2>1
<1>3. /\ FromFn(OrWord, a, b) \in Words(MaxLen) /\ Members(FromFn(OrWord, a, b)) = n \cup m
      /\ FromFn(AndWord, a, b) \in Words(MaxLen) /\ Members(FromFn(AndWord, a, b)) = n \cap m
      /\ FromFn(SubWord, a, b) \in Words(MaxLen) /\ Members(FromFn(SubWord, a, b)) = n \ m
      /\ FromFn(XorWord, a, b) \in Words(MaxLen)
      /\ Members(FromFn(XorWord, a, b)) = (n \ m) \cup (m \ n)
  <2> HIDE DEF a, b
  <2> QED BY <1>1, FromFnMembers
<1>4. ASSUME NEW c \in Words(MaxLen), Put(q, c), NEW call, Answer(call, {})
      PROVE  /\ TypeOK' /\ Bounded!Become(q, Members(c), MaxLen * BITS_PER)
             /\ Bounded!Answer(call, {})
  BY <1>1, <1>4, BecomeStep
<1>5. CASE Put(q, FromFn(OrWord, a, b)) /\ Answer("|", {})
  <2>1. TypeOK' /\ Bounded!Become(q, n \cup m, wide) /\ Bounded!Answer("|", {})
    BY <1>2, <1>3, <1>4, <1>5
  <2> QED BY <2>1 DEF Bounded!Operator
<1>6. CASE Put(q, FromFn(AndWord, a, b)) /\ Answer("&", {})
  <2>1. TypeOK' /\ Bounded!Become(q, n \cap m, Capacity(a)) /\ Bounded!Answer("&", {})
    BY <1>1, <1>3, <1>4, <1>6
  <2> QED BY <2>1 DEF Bounded!Operator
<1>7. CASE Put(q, FromFn(SubWord, a, b)) /\ Answer("-", {})
  <2>1. TypeOK' /\ Bounded!Become(q, n \ m, Capacity(a)) /\ Bounded!Answer("-", {})
    BY <1>1, <1>3, <1>4, <1>7
  <2> QED BY <2>1 DEF Bounded!Operator
<1>8. CASE Put(q, FromFn(XorWord, a, b)) /\ Answer("^", {})
  <2>1. TypeOK' /\ Bounded!Become(q, (n \ m) \cup (m \ n), wide) /\ Bounded!Answer("^", {})
    BY <1>2, <1>3, <1>4, <1>8
  <2> QED BY <2>1 DEF Bounded!Operator, Bounded!SymmetricDifference
<1> QED BY <1>5, <1>6, <1>7, <1>8 DEF ArrayOperator

LEMMA ArrayComplementStep ==
  ASSUME TypeOK, NEW q \in Names, NEW r \in Names, Is(q, "array"), Is(r, "array"),
         ArrayComplement(q, r), UNCHANGED kind
  PROVE  TypeOK' /\ Bounded!Complement(q, r)
<1> DEFINE a == store[r]
           c == Not(a)
<1>1. /\ a \in Words(MaxLen) /\ MaxLen \in Nat /\ MaxLen \in 0 .. MaxLen
      /\ Words(MaxLen) \subseteq Stores(kind[q])
      /\ Capacity(a) = MaxLen * BITS_PER /\ Bounded!Below(r) = 0 .. MaxLen * BITS_PER - 1
  BY ArrayView
<1>2. c \in Words(MaxLen) /\ Members(c) = 0 .. MaxLen * BITS_PER - 1 \ Members(a)
  <2> HIDE DEF a
  <2> QED BY <1>1, NotMembers
<1>3. Put(q, c) /\ Answer("!", {})
  BY DEF ArrayComplement, Not
<1> HIDE DEF c
<1>4. /\ TypeOK' /\ Bounded!Become(q, Members(c), MaxLen * BITS_PER)
      /\ Bounded!Answer("!", {})
  BY <1>1, <1>2, <1>3, BecomeStep
<1> QED BY <1>1, <1>2, <1>4 DEF Bounded!Complement

-----------------------------------------------------------------------------
\* Every step is one of the abstraction.

\* The calls of one set that Bounded!Next has.
LEMMA AbstractStep ==
  ASSUME NEW r \in Names,
         \/ \E x \in 0 .. MaxLen * BITS_PER : AbstractAtIndex(r, x) \/ Bounded!FromElement(r, x)
         \/ AbstractOnSet(r) \/ Bounded!Make(r) \/ Bounded!New(r)
         \/ \E elems \in Elems :
              \/ Bounded!ExtendElems(r, elems) \/ Bounded!CollectElems(r, elems)
              \/ Bounded!FromIndices(r, {elems[j] : j \in DOMAIN elems})
         \/ \E s \in Names \ {r} : Bounded!InPlace(r, s) \/ Bounded!Append(r, s)
         \/ \E batch \in Batches : Bounded!Extend(r, batch) \/ Bounded!Collect(r, batch)
         \/ \E ids \in SUBSET Bounded!Below(r) : Bounded!InPlaceOn(r, ids)
         \/ \E s \in Names : \E ids \in SUBSET Bounded!Below(s) : Bounded!OperatorOn(r, s, ids)
         \/ \E s \in Names : Bounded!Complement(r, s)
         \/ \E s, u \in Names : Bounded!Operator(r, s, u)
  PROVE  Bounded!Next
BY DEF Bounded!Next, AbstractAtIndex, AbstractOnSet

LEMMA BoxedStep ==
  ASSUME TypeOK, NEW r \in Names, BoxedNext(r), UNCHANGED kind
  PROVE  TypeOK' /\ Bounded!Next
<1>1. Is(r, "boxed") /\ 0 .. MaxLen * BITS_PER \subseteq Nat
  BY DEF BoxedNext
<1>2. CASE WithCapacity(r)
  <2>1. TypeOK' /\ Bounded!Make(r)
    BY <1>1, <1>2, WithCapacityStep
  <2> QED BY <2>1, AbstractStep
<1>3. CASE OnSet(r)
  <2>1. TypeOK' /\ AbstractOnSet(r)
    BY <1>3, OnSetStep
  <2> QED BY <2>1, AbstractStep
<1>4. ASSUME NEW x \in 0 .. MaxLen * BITS_PER, AtIndex(r, x) PROVE TypeOK' /\ Bounded!Next
  <2>1. TypeOK' /\ AbstractAtIndex(r, x)
    BY <1>1, <1>4, AtIndexStep
  <2> QED BY <2>1, AbstractStep
<1>5. ASSUME NEW batch \in Batches, BoxCollect(r, batch) \/ BoxExtend(r, batch)
      PROVE  TypeOK' /\ Bounded!Next
  <2>1. TypeOK' /\ (Bounded!Collect(r, batch) \/ Bounded!Extend(r, batch))
    <3>1. CASE BoxCollect(r, batch)
      BY <1>1, <3>1, BoxCollectStep
    <3>2. CASE BoxExtend(r, batch)
      BY <3>2, ExtendStep DEF BoxExtend
    <3> QED BY <1>5, <3>1, <3>2
  <2> QED BY <2>1, AbstractStep
<1>6. ASSUME NEW s \in Names \ {r}, BoxAssign(r, s) PROVE TypeOK' /\ Bounded!Next
  <2>1. TypeOK' /\ Bounded!InPlace(r, s)
    BY <1>6, InPlaceStep DEF BoxAssign
  <2> QED BY <2>1, AbstractStep
<1>7. ASSUME NEW s \in Names, BoxComplement(r, s) PROVE TypeOK' /\ Bounded!Next
  <2>1. TypeOK' /\ Bounded!Complement(r, s)
    BY <1>1, <1>7, BoxComplementStep
  <2> QED BY <2>1, AbstractStep
<1>8. ASSUME NEW s \in Names, NEW u \in Names, BoxOperator(r, s, u) PROVE TypeOK' /\ Bounded!Next
  <2>1. TypeOK' /\ Bounded!Operator(r, s, u)
    BY <1>1, <1>8, BoxOperatorStep
  <2> QED BY <2>1, AbstractStep
<1> QED BY <1>2, <1>3, <1>4, <1>5, <1>6, <1>7, <1>8 DEF BoxedNext

LEMMA OwnedStep ==
  ASSUME TypeOK, NEW r \in Names, ~ Is(r, "boxed"), Owned(r), UNCHANGED kind
  PROVE  TypeOK' /\ Bounded!Next
<1>1. CASE New(r)
  <2>1. TypeOK' /\ Bounded!New(r)
    BY <1>1, NewStep
  <2> QED BY <2>1, AbstractStep
<1>2. ASSUME NEW x \in 0 .. MaxLen * BITS_PER, FromElement(r, x) PROVE TypeOK' /\ Bounded!Next
  <2>1. TypeOK' /\ (AbstractAtIndex(r, x) \/ Bounded!FromElement(r, x))
    BY <1>2, FromElementStep DEF AbstractAtIndex
  <2> QED BY <2>1, AbstractStep
<1>3. ASSUME NEW elems \in Elems, ExtendElems(r, elems) PROVE TypeOK' /\ Bounded!Next
  <2>1. TypeOK' /\ Bounded!ExtendElems(r, elems)
    BY <1>3, ExtendElemsStep
  <2> QED BY <2>1, AbstractStep
<1>4. ASSUME NEW elems \in Elems, CollectElems(r, elems) PROVE TypeOK' /\ Bounded!Next
  <2>1. /\ TypeOK'
        /\ \/ Bounded!CollectElems(r, elems)
           \/ \E x \in 0 .. MaxLen * BITS_PER : AbstractAtIndex(r, x)
    BY <1>4, CollectElemsStep DEF AbstractAtIndex
  <2> QED BY <2>1, AbstractStep
<1>5. ASSUME NEW batch \in Batches, Alike(r, batch), CollectSets(r, batch) \/ ExtendSets(r, batch)
      PROVE  TypeOK' /\ Bounded!Next
  <2>1. TypeOK' /\ (Bounded!Collect(r, batch) \/ Bounded!Extend(r, batch))
    BY <1>5, CollectSetsStep, ExtendSetsStep
  <2> QED BY <2>1, AbstractStep
<1> QED BY <1>1, <1>2, <1>3, <1>4, <1>5 DEF Owned

LEMMA ArrayStep ==
  ASSUME TypeOK, NEW r \in Names, ArrayNext(r), UNCHANGED kind
  PROVE  TypeOK' /\ Bounded!Next
<1>1. Is(r, "array") /\ ~ Is(r, "boxed") /\ 0 .. MaxLen * BITS_PER \subseteq Nat
  BY DEF ArrayNext, Is
<1>2. CASE Owned(r)
  BY <1>1, <1>2, OwnedStep
<1>3. CASE OnSet(r)
  <2>1. TypeOK' /\ AbstractOnSet(r)
    BY <1>3, OnSetStep
  <2> QED BY <2>1, AbstractStep
<1>4. ASSUME NEW x \in 0 .. MaxLen * BITS_PER, AtIndex(r, x) PROVE TypeOK' /\ Bounded!Next
  <2>1. TypeOK' /\ AbstractAtIndex(r, x)
    BY <1>1, <1>4, AtIndexStep
  <2> QED BY <2>1, AbstractStep
<1>5. ASSUME NEW s \in Names \ {r}, ArrayAssign(r, s) PROVE TypeOK' /\ Bounded!Next
  <2>1. TypeOK' /\ Bounded!InPlace(r, s)
    BY <1>5, InPlaceStep DEF ArrayAssign
  <2> QED BY <2>1, AbstractStep
<1>6. ASSUME NEW s \in Names, Is(s, "array"), ArrayComplement(r, s) PROVE TypeOK' /\ Bounded!Next
  <2>1. TypeOK' /\ Bounded!Complement(r, s)
    BY <1>1, <1>6, ArrayComplementStep
  <2> QED BY <2>1, AbstractStep
<1>7. ASSUME NEW s \in Names, NEW u \in Names, Is(s, "array"), Is(u, "array"), ArrayOperator(r, s, u)
      PROVE  TypeOK' /\ Bounded!Next
  <2>1. TypeOK' /\ Bounded!Operator(r, s, u)
    BY <1>1, <1>7, ArrayOperatorStep
  <2> QED BY <2>1, AbstractStep
<1> QED BY <1>2, <1>3, <1>4, <1>5, <1>6, <1>7 DEF ArrayNext

LEMMA PrimStep ==
  ASSUME TypeOK, NEW r \in Names, PrimNext(r), UNCHANGED kind
  PROVE  TypeOK' /\ Bounded!Next
<1>1. Is(r, "prim") /\ ~ Is(r, "boxed") /\ 0 .. MaxLen * BITS_PER \subseteq Nat
  BY DEF PrimNext, Is
<1>2. CASE Owned(r)
  BY <1>1, <1>2, OwnedStep
<1>3. CASE OnSet(r)
  <2>1. TypeOK' /\ AbstractOnSet(r)
    BY <1>3, OnSetStep
  <2> QED BY <2>1, AbstractStep
<1>4. CASE PrimDrain(r)
  <2>1. TypeOK' /\ AbstractOnSet(r)
    BY <1>1, <1>4, PrimDrainStep DEF AbstractOnSet
  <2> QED BY <2>1, AbstractStep
<1>5. ASSUME NEW x \in 0 .. MaxLen * BITS_PER, PrimAtIndex(r, x) PROVE TypeOK' /\ Bounded!Next
  <2>1. TypeOK' /\ (AbstractAtIndex(r, x) \/ Bounded!FromElement(r, x))
    BY <1>1, <1>5, PrimAtIndexStep
  <2> QED BY <2>1, AbstractStep
<1>6. ASSUME NEW elems \in Elems, FromIndices(r, {elems[j] : j \in DOMAIN elems})
      PROVE  TypeOK' /\ Bounded!Next
  <2> DEFINE ids == {elems[j] : j \in DOMAIN elems}
  <2>1. ids \in SUBSET Nat
    BY ProgramAssumption
  <2>2. /\ TypeOK'
        /\ \/ Bounded!FromIndices(r, ids)
           \/ \E x \in 0 .. MaxLen * BITS_PER : AbstractAtIndex(r, x)
    <3> HIDE DEF ids
    <3>1. FromIndices(r, ids)
      BY <1>6 DEF ids
    <3> QED BY <1>1, <2>1, <3>1, FromIndicesStep DEF AbstractAtIndex
  <2> QED BY <2>2, AbstractStep
<1>7. ASSUME NEW word \in SUBSET Bits, PrimUnionFrom(r, word) PROVE TypeOK' /\ Bounded!Next
  <2>1. TypeOK' /\ Bounded!InPlaceOn(r, word) /\ Bounded!Below(r) = Bits
    BY <1>1, <1>7, PrimUnionFromStep, PrimView
  <2> QED BY <2>1, AbstractStep
<1>8. ASSUME NEW word \in SUBSET Bits, NEW s \in Names, Is(s, "prim"), PrimUnion(r, s, word)
      PROVE  TypeOK' /\ Bounded!Next
  <2>1. TypeOK' /\ Bounded!OperatorOn(r, s, word) /\ Bounded!Below(s) = Bits
    BY <1>1, <1>8, PrimUnionStep, PrimView
  <2> QED BY <2>1, AbstractStep
<1>9. ASSUME NEW s \in Names \ {r}, Is(s, "prim"), PrimAssign(r, s) PROVE TypeOK' /\ Bounded!Next
  <2>1. TypeOK' /\ Bounded!InPlace(r, s)
    BY <1>1, <1>9, PrimAssignStep
  <2> QED BY <2>1, AbstractStep
<1>10. ASSUME NEW s \in Names, Is(s, "prim"), PrimComplement(r, s) PROVE TypeOK' /\ Bounded!Next
  <2>1. TypeOK' /\ Bounded!Complement(r, s)
    BY <1>1, <1>10, PrimComplementStep
  <2> QED BY <2>1, AbstractStep
<1>11. ASSUME NEW s \in Names, NEW u \in Names, Is(s, "prim"), Is(u, "prim"), PrimOperator(r, s, u)
       PROVE  TypeOK' /\ Bounded!Next
  <2>1. TypeOK' /\ Bounded!Operator(r, s, u)
    BY <1>1, <1>11, PrimOperatorStep
  <2> QED BY <2>1, AbstractStep
<1> QED BY <1>2, <1>3, <1>4, <1>5, <1>6, <1>7, <1>8, <1>9, <1>10, <1>11 DEF PrimNext, PrimAtIndex

LEMMA NextStep ==
  ASSUME TypeOK, Next
  PROVE  TypeOK' /\ Bounded!Next
<1>1. UNCHANGED kind
  BY DEF Next
<1>2. ASSUME NEW r \in Names, BoxedNext(r) \/ ArrayNext(r) \/ PrimNext(r)
      PROVE  TypeOK' /\ Bounded!Next
  BY <1>1, <1>2, BoxedStep, ArrayStep, PrimStep
<1>3. ASSUME NEW r \in Names, NEW s \in Names, r # s, InPlace(r, s) \/ AppendFrom(r, s)
      PROVE  TypeOK' /\ Bounded!Next
  <2>1. TypeOK' /\ (Bounded!InPlace(r, s) \/ Bounded!Append(r, s))
    BY <1>1, <1>3, InPlaceStep, AppendStep
  <2>2. s \in Names \ {r}
    BY <1>3
  <2> QED BY <2>1, <2>2, AbstractStep
<1> QED BY <1>2, <1>3 DEF Next, Slices

LEMMA CapacityOf ==
  ASSUME TypeOK, NEW r \in Names
  PROVE  /\ Capacity(store[r]) \in 0 .. MaxLen * BITS_PER /\ Capacity(store[r]) % BITS_PER = 0
         /\ Members(store[r]) \subseteq 0 .. Capacity(store[r]) - 1
         /\ Members(store[r]) \subseteq 0 .. MaxLen * BITS_PER - 1
<1>1. PICK n \in 0 .. MaxLen : store[r] \in Words(n)
  BY SetWords
<1>2. /\ Capacity(store[r]) = n * BITS_PER /\ n * BITS_PER \in Nat /\ MaxLen * BITS_PER \in Nat
      /\ Members(store[r]) \subseteq 0 .. n * BITS_PER - 1
      /\ 0 .. n * BITS_PER - 1 \subseteq 0 .. MaxLen * BITS_PER - 1
  BY <1>1, View
<1>3. n * BITS_PER <= MaxLen * BITS_PER
  BY <1>1, Products, SliceAssumption
<1>4. (n * BITS_PER) % BITS_PER = 0
  <2>1. 0 \in Bits /\ n \in Nat /\ IdxOf(n, 0) = n * BITS_PER
    BY <1>2, SliceAssumption DEF Bits, IdxOf
  <2>2. Mask(IdxOf(n, 0)) = 0
    BY <2>1, JoinIndex
  <2> QED BY <2>1, <2>2 DEF Mask
<1> QED BY <1>2, <1>3, <1>4

LEMMA InitStep ==
  ASSUME Init
  PROVE  TypeOK /\ Bounded!Init
<1>1. TypeOK
  BY DEF Init, TypeOK, Stores, BoxedStores, ArrayStores, PrimStores
<1>2. \A r \in Names : /\ Capacity(store[r]) \in 0 .. MaxLen * BITS_PER
                       /\ Capacity(store[r]) % BITS_PER = 0
                       /\ Members(store[r]) \subseteq 0 .. Capacity(store[r]) - 1
                       /\ Members(store[r]) \subseteq 0 .. MaxLen * BITS_PER - 1
  BY <1>1, CapacityOf
<1>3. ret = [call |-> "new", panic |-> FALSE, ids |-> {}]
  BY DEF Init
<1> QED BY <1>1, <1>2, <1>3 DEF Bounded!Init, Bounded!Below

LEMMA StutterStep ==
  ASSUME TypeOK, UNCHANGED vars
  PROVE  TypeOK' /\ UNCHANGED Bounded!vars
<1>1. store' = store /\ ret' = ret /\ kind' = kind
  BY DEF vars
<1>2. TypeOK'
  BY <1>1 DEF TypeOK, Stores, BoxedStores, ArrayStores, PrimStores
<1>3. UNCHANGED Bounded!vars
  BY <1>1 DEF Bounded!vars
<1> QED BY <1>2, <1>3

-----------------------------------------------------------------------------
\* Every set keeps words of its type's number, whatever is called.
THEOREM TypeCorrect == Spec => []TypeOK
<1>1. Init => TypeOK
  BY InitStep
<1>2. TypeOK /\ [Next]_vars => TypeOK'
  BY NextStep, StutterStep
<1> QED BY <1>1, <1>2, PTL DEF Spec

\* Words of any width, in any number, behave as bounded sets of indices: every
\* call of BitSlice, BoxedBitSet and BitSet, with its answer, is the one of sets.
THEOREM Refines == Spec => Implements
<1>1. Init => Bounded!Init
  BY InitStep
<1>2. TypeOK /\ [Next]_vars => [Bounded!Next]_(Bounded!vars)
  BY NextStep, StutterStep
<1> QED BY <1>1, <1>2, TypeCorrect, PTL DEF Spec, Implements, Bounded!Spec

-----------------------------------------------------------------------------
\* What is asked of two sets.

\* The relations of the slice compare the members.
LEMMA RelationMembers ==
  ASSUME NEW n \in Nat, NEW a \in Words(n), NEW m \in Nat, NEW b \in Words(m)
  PROVE  /\ IsSubset(a, b) <=> Members(a) \subseteq Members(b)
         /\ IsDisjoint(a, b) <=> Members(a) \cap Members(b) = {}
         /\ Equal(a, b) <=> Members(a) = Members(b)
<1>1. /\ DOMAIN a = 0 .. n - 1 /\ DOMAIN b = 0 .. m - 1
      /\ \A k \in DOMAIN a : a[k] \in SUBSET Bits
      /\ \A k \in DOMAIN b : b[k] \in SUBSET Bits
  BY Shape
<1>2. \A x : /\ x \in Members(a) <=> x \in Nat /\ Seg(x) \in DOMAIN a /\ Mask(x) \in a[Seg(x)]
             /\ x \in Members(b) <=> x \in Nat /\ Seg(x) \in DOMAIN b /\ Mask(x) \in b[Seg(x)]
  BY <1>1, MemberIff
\* A bit of a word is an index.
<1>3. \A k \in DOMAIN a, c \in Bits : c \in a[k] <=> IdxOf(k, c) \in Members(a)
  BY <1>1, <1>2, JoinIndex
<1>4. \A k \in DOMAIN b, c \in Bits : c \in b[k] <=> IdxOf(k, c) \in Members(b)
  BY <1>1, <1>2, JoinIndex
<1>5. \A k \in DOMAIN a \ DOMAIN b, c \in Bits : IdxOf(k, c) \notin Members(b)
  BY <1>1, <1>2, JoinIndex
<1>6. \A k \in DOMAIN b \ DOMAIN a, c \in Bits : IdxOf(k, c) \notin Members(a)
  BY <1>1, <1>2, JoinIndex
<1>7. ASSUME IsSubset(a, b) PROVE Members(a) \subseteq Members(b)
  BY <1>2, <1>7 DEF IsSubset
<1>8. ASSUME Members(a) \subseteq Members(b) PROVE IsSubset(a, b)
  <2>1. \A k \in DOMAIN a \cap DOMAIN b : a[k] \cap b[k] = a[k]
    BY <1>1, <1>3, <1>4, <1>8
  <2>2. \A k \in DOMAIN a \ DOMAIN b : a[k] = {}
    BY <1>1, <1>3, <1>5, <1>8
  <2> QED BY <2>1, <2>2 DEF IsSubset
<1>9. ASSUME IsDisjoint(a, b) PROVE Members(a) \cap Members(b) = {}
  BY <1>2, <1>9 DEF IsDisjoint
<1>10. ASSUME Members(a) \cap Members(b) = {} PROVE IsDisjoint(a, b)
  BY <1>1, <1>3, <1>4, <1>10 DEF IsDisjoint
<1>11. ASSUME Equal(a, b) PROVE Members(a) = Members(b)
  <2>1. \A x : x \in Members(a) <=> x \in Members(b)
    BY <1>2, <1>11 DEF Equal
  <2> QED BY <2>1
<1>12. ASSUME Members(a) = Members(b) PROVE Equal(a, b)
  <2>1. \A k \in DOMAIN a \cap DOMAIN b : a[k] = b[k]
    BY <1>1, <1>3, <1>4, <1>12
  <2>2. \A k \in DOMAIN a \ DOMAIN b : a[k] = {}
    BY <1>1, <1>3, <1>5, <1>12
  <2>3. \A k \in DOMAIN b \ DOMAIN a : b[k] = {}
    BY <1>1, <1>4, <1>6, <1>12
  <2> QED BY <2>1, <2>2, <2>3 DEF Equal
<1> QED BY <1>7, <1>8, <1>9, <1>10, <1>11, <1>12

\* is_subset, is_disjoint and == of sets of any lengths are those of their
\* members.
THEOREM RelationsCorrect == Spec => []RelationsAgree
<1>1. TypeOK => RelationsAgree
  <2> SUFFICES ASSUME TypeOK, NEW r \in Names, NEW s \in Names
               PROVE  /\ IsSubset(store[r], store[s]) <=> Members(store[r]) \subseteq Members(store[s])
                      /\ IsDisjoint(store[r], store[s]) <=> Members(store[r]) \cap Members(store[s]) = {}
                      /\ Equal(store[r], store[s]) <=> Members(store[r]) = Members(store[s])
    BY DEF RelationsAgree
  <2>1. PICK n \in 0 .. MaxLen : store[r] \in Words(n)
    BY SetWords
  <2>2. PICK m \in 0 .. MaxLen : store[s] \in Words(m)
    BY SetWords
  <2> QED BY <2>1, <2>2, RelationMembers
<1> QED BY <1>1, TypeCorrect, PTL

\* Arrays, or primitives, have words of one number.
LEMMA OneType ==
  ASSUME TypeOK, NEW r \in Names, NEW s \in Names, kind[r] = kind[s], kind[r] # "boxed"
  PROVE  /\ DOMAIN store[r] = DOMAIN store[s]
         /\ \E n \in 0 .. MaxLen : store[r] \in Words(n) /\ store[s] \in Words(n)
         /\ Is(r, "prim") => DOMAIN store[r] = {0}
<1>1. kind[r] = "array" \/ kind[r] = "prim"
  BY ProgramAssumption DEF TypeOK
<1>2. PICK n \in 0 .. MaxLen : /\ store[r] \in Words(n)
                               /\ Is(r, "array") => n = MaxLen
                               /\ Is(r, "prim") => n = 1
  BY SetWords
<1>3. PICK m \in 0 .. MaxLen : /\ store[s] \in Words(m)
                               /\ Is(s, "array") => m = MaxLen
                               /\ Is(s, "prim") => m = 1
  BY SetWords
<1>4. n = m
  BY <1>1, <1>2, <1>3 DEF Is
<1>5. DOMAIN store[r] = DOMAIN store[s]
  BY <1>2, <1>3, <1>4 DEF Words
<1>6. Is(r, "prim") => DOMAIN store[r] = {0}
  <2>1. Is(r, "prim") => DOMAIN store[r] = 0 .. 1 - 1
    BY <1>2 DEF Words
  <2> QED BY <2>1
<1> QED BY <1>2, <1>3, <1>4, <1>5, <1>6

\* The relations that arrays and primitives define themselves are the slice's.
THEOREM OwnRelationsCorrect == Spec => []OwnRelationsAgree
<1>1. TypeOK => OwnRelationsAgree
  <2> SUFFICES ASSUME TypeOK, NEW r \in Names, NEW s \in Names, kind[r] = kind[s], kind[r] # "boxed"
               PROVE  /\ OwnEqual(store[r], store[s]) <=> Equal(store[r], store[s])
                      /\ ArrayIsSubset(store[r], store[s]) <=> IsSubset(store[r], store[s])
                      /\ ArrayIsSuperset(store[r], store[s]) <=> IsSubset(store[s], store[r])
                      /\ ArrayIsDisjoint(store[r], store[s]) <=> IsDisjoint(store[r], store[s])
                      /\ Is(r, "prim") =>
                           /\ PrimIsSubset(store[r], store[s]) <=> IsSubset(store[r], store[s])
                           /\ PrimIsSuperset(store[r], store[s]) <=> IsSubset(store[s], store[r])
                           /\ PrimIsDisjoint(store[r], store[s]) <=> IsDisjoint(store[r], store[s])
    BY DEF OwnRelationsAgree
  <2> DEFINE a == store[r]
             b == store[s]
  <2>1. DOMAIN a = DOMAIN b /\ (Is(r, "prim") => DOMAIN a = {0})
    BY OneType
  <2>2. PICK n \in 0 .. MaxLen : a \in Words(n) /\ b \in Words(n)
    BY OneType
  <2> HIDE DEF a, b
  <2>3. OwnEqual(a, b) <=> Equal(a, b)
    BY <2>1, <2>2 DEF OwnEqual, Equal, Words
  <2>4. /\ ArrayIsSubset(a, b) <=> IsSubset(a, b)
        /\ ArrayIsSuperset(a, b) <=> IsSubset(b, a)
        /\ ArrayIsDisjoint(a, b) <=> IsDisjoint(a, b)
    BY <2>1 DEF ArrayIsSubset, ArrayIsSuperset, ArrayIsDisjoint, IsSubset, IsDisjoint
  <2>5. ASSUME Is(r, "prim")
        PROVE  /\ PrimIsSubset(a, b) <=> IsSubset(a, b)
               /\ PrimIsSuperset(a, b) <=> IsSubset(b, a)
               /\ PrimIsDisjoint(a, b) <=> IsDisjoint(a, b)
    <3>1. DOMAIN a = {0} /\ DOMAIN b = {0}
      BY <2>1, <2>5
    <3> QED BY <3>1 DEF PrimIsSubset, PrimIsSuperset, PrimIsDisjoint, IsSubset, IsDisjoint
  <2> QED BY <2>3, <2>4, <2>5 DEF a, b
<1> QED BY <1>1, TypeCorrect, PTL

LEMMA HashMembers ==
  ASSUME NEW n \in Nat, NEW a \in Words(n), NEW m \in Nat, NEW b \in Words(m)
  PROVE  Equal(a, b) <=> Hashed(a) = Hashed(b)
<1>1. DOMAIN a = 0 .. n - 1 /\ DOMAIN b = 0 .. m - 1
  BY Shape
<1>2. /\ \A k : k \in DOMAIN Hashed(a) <=> k \in DOMAIN a /\ \E l \in DOMAIN a : k <= l /\ a[l] # {}
      /\ \A k \in DOMAIN Hashed(a) : Hashed(a)[k] = a[k]
  BY DEF Hashed
<1>3. /\ \A k : k \in DOMAIN Hashed(b) <=> k \in DOMAIN b /\ \E l \in DOMAIN b : k <= l /\ b[l] # {}
      /\ \A k \in DOMAIN Hashed(b) : Hashed(b)[k] = b[k]
  BY DEF Hashed
<1>4. /\ \A k \in DOMAIN a : a[k] # {} => k \in DOMAIN Hashed(a)
      /\ \A k \in DOMAIN b : b[k] # {} => k \in DOMAIN Hashed(b)
  BY <1>1, <1>2, <1>3
<1>5. ASSUME Equal(a, b) PROVE Hashed(a) = Hashed(b)
  <2>1. /\ \A k \in DOMAIN a : a[k] # {} => k \in DOMAIN b /\ b[k] = a[k]
        /\ \A k \in DOMAIN b : b[k] # {} => k \in DOMAIN a /\ a[k] = b[k]
        /\ \A k \in DOMAIN a \cap DOMAIN b : a[k] = b[k]
    BY <1>5 DEF Equal
  <2>2. \A k : k \in DOMAIN Hashed(a) <=> k \in DOMAIN Hashed(b)
    BY <1>1, <1>2, <1>3, <2>1
  <2>3. DOMAIN Hashed(a) = DOMAIN Hashed(b)
    BY <2>2
  <2>4. \A k \in DOMAIN Hashed(a) : Hashed(a)[k] = Hashed(b)[k]
    BY <1>2, <1>3, <2>1, <2>3
  <2> QED BY <2>3, <2>4 DEF Hashed
<1>6. ASSUME Hashed(a) = Hashed(b) PROVE Equal(a, b)
  <2>1. \A k \in DOMAIN a : a[k] # {} => k \in DOMAIN b /\ b[k] = a[k]
    BY <1>2, <1>3, <1>4, <1>6
  <2>2. \A k \in DOMAIN b : b[k] # {} => k \in DOMAIN a /\ a[k] = b[k]
    BY <1>2, <1>3, <1>4, <1>6
  <2> QED BY <2>1, <2>2 DEF Equal
<1> QED BY <1>5, <1>6

\* Sets of any lengths are equal exactly if they hash the same words.
THEOREM HashCorrect == Spec => []HashFollowsEq
<1>1. TypeOK => HashFollowsEq
  <2> SUFFICES ASSUME TypeOK, NEW r \in Names, NEW s \in Names
               PROVE  Equal(store[r], store[s]) <=> Hashed(store[r]) = Hashed(store[s])
    BY DEF HashFollowsEq
  <2>1. PICK n \in 0 .. MaxLen : store[r] \in Words(n)
    BY SetWords
  <2>2. PICK m \in 0 .. MaxLen : store[s] \in Words(m)
    BY SetWords
  <2> QED BY <2>1, <2>2, HashMembers
<1> QED BY <1>1, TypeCorrect, PTL

-----------------------------------------------------------------------------
\* The order of arrays and primitives.

LEMMA HighestBit ==
  ASSUME NEW T, T \subseteq Bits, T # {}
  PROVE  \E b \in T : \A c \in T : c <= b
<1> DEFINE U == {BITS_PER - c : c \in T}
<1>1. U \subseteq Nat /\ U # {}
  BY SliceAssumption DEF Bits
<1>2. PICK u \in U : \A v \in U : u <= v
  <2> HIDE DEF U
  <2> QED BY <1>1, LeastNat
<1>3. PICK b \in T : u = BITS_PER - b
  BY <1>2
<1>4. ASSUME NEW c \in T PROVE c <= b
  <2>1. BITS_PER - c \in U
    OBVIOUS
  <2>2. BITS_PER - b <= BITS_PER - c
    BY <1>2, <1>3, <2>1
  <2>3. BITS_PER \in Int /\ b \in Int /\ c \in Int
    BY SliceAssumption DEF Bits
  <2> QED BY <2>2, <2>3
<1> QED BY <1>4

\* Of two differences one after the other the higher one decides.
LEMMA WordTransitive ==
  ASSUME NEW x \in SUBSET Bits, NEW y \in SUBSET Bits, NEW z \in SUBSET Bits,
         WordLess(x, y), WordLess(y, z)
  PROVE  WordLess(x, z)
<1>1. Bits \subseteq Int
  BY SliceAssumption DEF Bits
<1>2. PICK b \in y \ x : \A c \in x \ y : c < b
  BY DEF WordLess
<1>3. PICK d \in z \ y : \A c \in y \ z : c < d
  BY DEF WordLess
<1>4. b \in Int /\ d \in Int /\ b # d
  BY <1>1, <1>2, <1>3
<1>5. CASE b < d
  <2>1. d \in z \ x
    BY <1>2, <1>3, <1>4, <1>5
  <2>2. \A c \in x \ z : c < d
    BY <1>1, <1>2, <1>3, <1>4, <1>5
  <2> QED BY <2>1, <2>2 DEF WordLess
<1>6. CASE d < b
  <2>1. b \in z \ x
    BY <1>2, <1>3, <1>4, <1>6
  <2>2. \A c \in x \ z : c < b
    BY <1>1, <1>2, <1>3, <1>4, <1>6
  <2> QED BY <2>1, <2>2 DEF WordLess
<1> QED BY <1>4, <1>5, <1>6

LEMMA WordOrder ==
  ASSUME NEW x \in SUBSET Bits, NEW y \in SUBSET Bits
  PROVE  /\ x = y \/ WordLess(x, y) \/ WordLess(y, x)
         /\ ~ (WordLess(x, y) /\ WordLess(y, x))
         /\ x \subseteq y /\ x # y => WordLess(x, y)
         /\ WordLess(x, y) => x # y
<1>1. Bits \subseteq Int
  BY SliceAssumption DEF Bits
<1>2. ASSUME x # y PROVE WordLess(x, y) \/ WordLess(y, x)
  <2> DEFINE T == (x \ y) \cup (y \ x)
  <2>1. T \subseteq Bits /\ T # {}
    BY <1>2
  <2>2. PICK b \in T : \A c \in T : c <= b
    <3> HIDE DEF T
    <3> QED BY <2>1, HighestBit
  <2>3. b \in y \ x => WordLess(x, y)
    BY <1>1, <2>2 DEF WordLess
  <2>4. b \in x \ y => WordLess(y, x)
    BY <1>1, <2>2 DEF WordLess
  <2> QED BY <2>2, <2>3, <2>4
<1>3. ASSUME WordLess(x, y), WordLess(y, x) PROVE FALSE
  <2>1. PICK b \in y \ x : \A c \in x \ y : c < b
    BY <1>3 DEF WordLess
  <2>2. PICK d \in x \ y : \A c \in y \ x : c < d
    BY <1>3 DEF WordLess
  <2>3. d < b /\ b < d /\ b \in Int /\ d \in Int
    BY <1>1, <2>1, <2>2
  <2> QED BY <2>3
<1>4. ASSUME x \subseteq y, x # y PROVE WordLess(x, y)
  BY <1>4 DEF WordLess
<1>5. WordLess(x, y) => x # y
  BY DEF WordLess
<1> QED BY <1>2, <1>3, <1>4, <1>5

\* The first word that two sets differ in.
LEMMA FirstDifference ==
  ASSUME NEW n \in Nat, NEW a \in Words(n), NEW b \in Words(n), a # b
  PROVE  \E k \in 0 .. n - 1 : a[k] # b[k] /\ \A j \in 0 .. n - 1 : j < k => a[j] = b[j]
<1> DEFINE T == {k \in 0 .. n - 1 : a[k] # b[k]}
<1>1. T \subseteq Nat /\ T # {}
  BY DEF Words
<1>2. PICK k \in T : \A j \in T : k <= j
  <2> HIDE DEF T
  <2> QED BY <1>1, LeastNat
<1>3. ASSUME NEW j \in 0 .. n - 1, j < k PROVE a[j] = b[j]
  <2>1. ~ (k <= j)
    BY <1>2, <1>3
  <2> QED BY <1>2, <2>1
<1> QED BY <1>2, <1>3

LEMMA OrderMembers ==
  ASSUME NEW n \in Nat, NEW a \in Words(n), NEW b \in Words(n)
  PROVE  /\ a = b \/ Less(a, b) \/ Less(b, a)
         /\ ~ (Less(a, b) /\ Less(b, a))
         /\ IsSubset(a, b) => a = b \/ Less(a, b)
<1>1. /\ DOMAIN a = 0 .. n - 1 /\ DOMAIN b = 0 .. n - 1
      /\ \A k \in 0 .. n - 1 : a[k] \in SUBSET Bits /\ b[k] \in SUBSET Bits
  BY Shape
<1>2. ASSUME a # b
      PROVE  (Less(a, b) \/ Less(b, a)) /\ (IsSubset(a, b) => Less(a, b))
  <2>1. PICK k \in 0 .. n - 1 : a[k] # b[k] /\ \A j \in 0 .. n - 1 : j < k => a[j] = b[j]
    BY <1>2, FirstDifference
  <2>2. WordLess(a[k], b[k]) => Less(a, b)
    BY <1>1, <2>1 DEF Less
  <2>3. WordLess(b[k], a[k]) => Less(b, a)
    BY <1>1, <2>1 DEF Less
  <2>4. WordLess(a[k], b[k]) \/ WordLess(b[k], a[k])
    BY <1>1, <2>1, WordOrder
  <2>5. IsSubset(a, b) => WordLess(a[k], b[k])
    <3>1. IsSubset(a, b) => a[k] \subseteq b[k]
      BY <1>1 DEF IsSubset
    <3> QED BY <1>1, <2>1, <3>1, WordOrder
  <2> QED BY <2>2, <2>3, <2>4, <2>5
<1>3. ASSUME Less(a, b), Less(b, a) PROVE FALSE
  <2>1. PICK k \in 0 .. n - 1 : WordLess(a[k], b[k]) /\ \A j \in 0 .. n - 1 : j < k => a[j] = b[j]
    BY <1>1, <1>3 DEF Less
  <2>2. PICK l \in 0 .. n - 1 : WordLess(b[l], a[l]) /\ \A j \in 0 .. n - 1 : j < l => b[j] = a[j]
    BY <1>1, <1>3 DEF Less
  <2>3. a[k] # b[k] /\ b[l] # a[l]
    BY <1>1, <2>1, <2>2, WordOrder
  <2>4. k = l
    BY <2>1, <2>2, <2>3
  <2> QED BY <1>1, <2>1, <2>2, <2>4, WordOrder
<1> QED BY <1>2, <1>3

\* The lower of the words in which a and b, and b and c, differ first decides.
LEMMA OrderTransitive ==
  ASSUME NEW n \in Nat, NEW a \in Words(n), NEW b \in Words(n), NEW c \in Words(n),
         Less(a, b), Less(b, c)
  PROVE  Less(a, c)
<1>1. /\ DOMAIN a = 0 .. n - 1 /\ DOMAIN b = 0 .. n - 1
      /\ \A k \in 0 .. n - 1 : /\ a[k] \in SUBSET Bits /\ b[k] \in SUBSET Bits
                                /\ c[k] \in SUBSET Bits
  BY Shape
<1>2. PICK k \in 0 .. n - 1 : WordLess(a[k], b[k]) /\ \A j \in 0 .. n - 1 : j < k => a[j] = b[j]
  BY <1>1 DEF Less
<1>3. PICK l \in 0 .. n - 1 : WordLess(b[l], c[l]) /\ \A j \in 0 .. n - 1 : j < l => b[j] = c[j]
  BY <1>1 DEF Less
<1>4. CASE k = l
  <2>1. WordLess(a[k], c[k])
    BY <1>1, <1>2, <1>3, <1>4, WordTransitive
  <2>2. \A j \in 0 .. n - 1 : j < k => a[j] = c[j]
    BY <1>2, <1>3, <1>4
  <2> QED BY <1>1, <2>1, <2>2 DEF Less
<1>5. CASE k < l
  <2>1. WordLess(a[k], c[k]) /\ \A j \in 0 .. n - 1 : j < k => a[j] = c[j]
    BY <1>2, <1>3, <1>5
  <2> QED BY <1>1, <2>1 DEF Less
<1>6. CASE l < k
  <2>1. WordLess(a[l], c[l]) /\ \A j \in 0 .. n - 1 : j < l => a[j] = c[j]
    BY <1>2, <1>3, <1>6
  <2> QED BY <1>1, <2>1 DEF Less
<1> QED BY <1>4, <1>5, <1>6

\* cmp of arrays and of primitives is a strict total order, transitive, that
\* agrees with == and extends inclusion.
THEOREM OrderCorrect == Spec => []OrderExtendsInclusion
<1>1. TypeOK => OrderExtendsInclusion
  <2> SUFFICES ASSUME TypeOK, NEW r \in Names, NEW s \in Names, kind[r] = kind[s], kind[r] # "boxed"
               PROVE  /\ store[r] = store[s] \/ Less(store[r], store[s]) \/ Less(store[s], store[r])
                      /\ ~ (Less(store[r], store[s]) /\ Less(store[s], store[r]))
                      /\ \A c \in Stores(kind[r]) :
                           Less(store[r], c) /\ Less(c, store[s]) => Less(store[r], store[s])
                      /\ IsSubset(store[r], store[s]) =>
                           store[r] = store[s] \/ Less(store[r], store[s])
    BY DEF OrderExtendsInclusion, OwnEqual
  <2>1. PICK n \in 0 .. MaxLen : /\ store[r] \in Words(n) /\ store[s] \in Words(n)
                                 /\ Stores(kind[r]) = Words(n)
    <3>1. kind[r] = "array" \/ kind[r] = "prim"
      BY ProgramAssumption DEF TypeOK
    <3>2. store[r] \in Stores(kind[r]) /\ store[s] \in Stores(kind[r])
      BY DEF TypeOK
    <3>3. kind[r] = "array" => Stores(kind[r]) = Words(MaxLen) /\ MaxLen \in 0 .. MaxLen
      BY SliceAssumption DEF Stores, ArrayStores
    <3>4. kind[r] = "prim" => Stores(kind[r]) = Words(1) /\ 1 \in 0 .. MaxLen
      BY SliceAssumption DEF Stores, PrimStores
    <3> QED BY <3>1, <3>2, <3>3, <3>4
  <2> QED BY <2>1, OrderMembers, OrderTransitive
<1> QED BY <1>1, TypeCorrect, PTL

-----------------------------------------------------------------------------
\* len, is_empty, first and last.

\* The indices of a word are as many as its bits.
LEMMA WordCount ==
  ASSUME NEW n \in Nat, NEW a \in Words(n), NEW k \in 0 .. n - 1
  PROVE  LET of == {x \in Members(a) : Seg(x) = k} IN
           /\ IsFiniteSet(of) /\ IsFiniteSet(a[k])
           /\ Cardinality(of) = Cardinality(a[k])
<1> DEFINE of == {x \in Members(a) : Seg(x) = k}
           f == [b \in a[k] |-> IdxOf(k, b)]
<1>1. a[k] \in SUBSET Bits /\ IsFiniteSet(a[k]) /\ k \in Nat
  <2>1. a[k] \in SUBSET Bits
    BY Shape
  <2>2. IsFiniteSet(Bits)
    BY FS_Interval, SliceAssumption DEF Bits
  <2> QED BY <2>1, <2>2, FS_Subset
<1>2. \A b \in a[k] : IdxOf(k, b) \in of /\ Mask(IdxOf(k, b)) = b
  BY <1>1, JoinIndex, MemberIff
<1>3. \A x \in of : Mask(x) \in a[k] /\ IdxOf(k, Mask(x)) = x
  BY MemberIff, SplitIndex
<1>4. f \in Bijection(a[k], of)
  <2> HIDE DEF of
  <2>1. f \in [a[k] -> of]
    BY <1>2
  <2>2. \A b, c \in a[k] : f[b] = f[c] => b = c
    BY <1>2
  <2>3. \A x \in of : \E b \in a[k] : f[b] = x
    BY <1>3
  <2> QED BY <2>1, <2>2, <2>3 DEF Bijection, Injection, Surjection, IsInjective
<1>5. ExistsBijection(a[k], of)
  BY <1>4 DEF ExistsBijection
<1> HIDE DEF of, f
<1>6. IsFiniteSet(of) /\ Cardinality(of) = Cardinality(a[k])
  BY <1>1, <1>5, FS_Bijection
<1> QED BY <1>1, <1>6 DEF of

\* len, the sum over the words, is the number of members.
LEMMA CountMembers ==
  ASSUME NEW n \in Nat, NEW a \in Words(n)
  PROVE  Count(a) = Cardinality(Members(a))
<1> DEFINE F == [k \in DOMAIN a |-> Cardinality(a[k])]
           In(T) == {x \in Members(a) : Seg(x) \in T}
           h == [T \in SUBSET DOMAIN F |-> Cardinality(In(T))]
<1>1. DOMAIN F = 0 .. n - 1 /\ DOMAIN a = 0 .. n - 1 /\ IsFiniteSet(0 .. n - 1)
  <2>1. IsFiniteSet(0 .. n - 1)
    BY FS_Interval
  <2> QED BY <2>1, Shape
<1>2. IsFiniteSet(Members(a))
  <2> DEFINE c == Capacity(a)
  <2>1. Members(a) \subseteq 0 .. c - 1
    BY DEF Members
  <2>2. c \in Nat
    BY Shape
  <2> HIDE DEF c
  <2>3. IsFiniteSet(0 .. c - 1)
    BY <2>2, FS_Interval
  <2> QED BY <2>1, <2>3, FS_Subset
<1>3. In({}) = {} /\ In(0 .. n - 1) = Members(a)
  BY MemberIff
<1>4. ASSUME NEW T \in SUBSET (0 .. n - 1), T # {}
      PROVE  LET k == CHOOSE x \in T : TRUE IN
               Cardinality(In(T)) = F[k] + Cardinality(In(T \ {k}))
  <2> DEFINE k == CHOOSE x \in T : TRUE
  <2>1. k \in T
    BY <1>4
  <2> HIDE DEF k
  <2> DEFINE of == {x \in Members(a) : Seg(x) = k}
  <2>2. IsFiniteSet(of) /\ Cardinality(of) = F[k]
    BY <1>1, <2>1, WordCount
  <2>3. In(T) = of \cup In(T \ {k}) /\ of \cap In(T \ {k}) = {}
    BY <2>1
  <2>4. IsFiniteSet(In(T \ {k}))
    BY <1>2, FS_Subset
  <2> HIDE DEF of, In, F
  <2>5. Cardinality(of \cup In(T \ {k})) = Cardinality(of) + Cardinality(In(T \ {k})) - 0
    <3>1. Cardinality(of \cap In(T \ {k})) = 0
      BY <2>3, FS_EmptySet
    <3> QED BY <2>2, <2>4, <3>1, FS_Union
  <2>6. Cardinality(of) \in Nat /\ Cardinality(In(T \ {k})) \in Nat
    BY <2>2, <2>4, FS_CardinalityType
  <2>7. Cardinality(In(T)) = F[k] + Cardinality(In(T \ {k}))
    BY <2>2, <2>3, <2>5, <2>6
  <2> QED BY <2>7 DEF k
<1> HIDE DEF In
<1>5. h = [T \in SUBSET DOMAIN F |->
             IF T = {} THEN 0
             ELSE F[CHOOSE x \in T : TRUE] + h[T \ {CHOOSE x \in T : TRUE}]]
  <2>1. ASSUME NEW T \in SUBSET (0 .. n - 1)
        PROVE  Cardinality(In(T)) = IF T = {} THEN 0
                 ELSE F[CHOOSE x \in T : TRUE] + h[T \ {CHOOSE x \in T : TRUE}]
    <3>1. CASE T = {}
      BY <1>3, <3>1, FS_EmptySet
    <3>2. CASE T # {}
      <4>1. h[T \ {CHOOSE x \in T : TRUE}] = Cardinality(In(T \ {CHOOSE x \in T : TRUE}))
        BY <1>1
      <4> HIDE DEF h, F
      <4> QED BY <1>4, <3>2, <4>1
    <3> QED BY <3>1, <3>2
  <2>2. h = [T \in SUBSET (0 .. n - 1) |-> Cardinality(In(T))]
    BY <1>1
  <2> HIDE DEF h, F
  <2> QED BY <1>1, <2>1, <2>2
<1>6. SumFunction(F) = h[DOMAIN F]
  <2> HIDE DEF h, F
  <2> QED BY <1>1, <1>5, SumIs
<1>7. Count(a) = SumFunction(F)
  BY DEF Count
<1>8. h[DOMAIN F] = Cardinality(Members(a))
  BY <1>1, <1>3
<1> HIDE DEF F, h
<1> QED BY <1>6, <1>7, <1>8

\* first and last: a member is the least or the greatest exactly if the search
\* over the words ends at it.
LEMMA EndIff ==
  ASSUME NEW n \in Nat, NEW a \in Words(n), NEW i \in Members(a)
  PROVE  /\ IsFirst(a, Seg(i), Mask(i)) <=> \A j \in Members(a) : i <= j
         /\ IsLast(a, Seg(i), Mask(i)) <=> \A j \in Members(a) : j <= i
<1> DEFINE k == Seg(i)
           b == Mask(i)
<1>1. /\ i \in Nat /\ k \in 0 .. n - 1 /\ k \in Nat /\ b \in Bits /\ b \in a[k] /\ i = IdxOf(k, b)
      /\ DOMAIN a = 0 .. n - 1
  BY MemberIff, SplitIndex, Shape
<1>2. ASSUME NEW j \in 0 .. n - 1, NEW c \in a[j]
      PROVE  LET y == IdxOf(j, c) IN
               y \in Members(a) /\ y \in Nat /\ Seg(y) = j /\ Mask(y) = c /\ c \in Int
  <2>1. c \in Bits /\ j \in Nat
    BY Shape
  <2> QED BY <2>1, JoinIndex, MemberIff, SliceAssumption DEF Bits
<1>3. b \in Int /\ k \in Int
  BY <1>1, SliceAssumption DEF Bits
<1>4. IsFirst(a, k, b) => \A j \in Members(a) : i <= j
  BY <1>1, EndMember
<1>5. IsLast(a, k, b) => \A j \in Members(a) : j <= i
  BY <1>1, EndMember
<1>6. ASSUME \A j \in Members(a) : i <= j PROVE IsFirst(a, k, b)
  <2>1. ASSUME NEW j \in 0 .. n - 1, j < k, NEW c \in a[j] PROVE FALSE
    <3>1. /\ IdxOf(j, c) \in Members(a) /\ IdxOf(j, c) \in Nat
          /\ Seg(IdxOf(j, c)) = j
      BY <1>2
    <3>2. IdxOf(j, c) < i /\ i <= IdxOf(j, c)
      BY <1>1, <1>6, <2>1, <3>1, IndexOrder
    <3> QED BY <1>1, <3>1, <3>2
  <2>2. ASSUME NEW c \in a[k] PROVE b <= c
    <3>1. /\ IdxOf(k, c) \in Members(a) /\ IdxOf(k, c) \in Nat
          /\ Seg(IdxOf(k, c)) = k /\ Mask(IdxOf(k, c)) = c
      BY <1>1, <1>2
    <3> HIDE DEF k, b
    <3> QED BY <1>1, <1>6, <3>1, IndexOrder DEF k, b
  <2> HIDE DEF k, b
  <2> QED BY <1>1, <2>1, <2>2 DEF IsFirst
<1>7. ASSUME \A j \in Members(a) : j <= i PROVE IsLast(a, k, b)
  <2>1. ASSUME NEW j \in 0 .. n - 1, j > k, NEW c \in a[j] PROVE FALSE
    <3>1. /\ IdxOf(j, c) \in Members(a) /\ IdxOf(j, c) \in Nat
          /\ Seg(IdxOf(j, c)) = j
      BY <1>2
    <3>2. k < j
      BY <1>3, <2>1
    <3>3. i < IdxOf(j, c) /\ IdxOf(j, c) <= i
      BY <1>1, <1>7, <3>1, <3>2, IndexOrder
    <3> QED BY <1>1, <3>1, <3>3
  <2>2. ASSUME NEW c \in a[k] PROVE b >= c
    <3>1. /\ IdxOf(k, c) \in Members(a) /\ IdxOf(k, c) \in Nat
          /\ Seg(IdxOf(k, c)) = k /\ Mask(IdxOf(k, c)) = c
          /\ c \in Int
      BY <1>1, <1>2
    <3>2. c <= b
      BY <1>1, <1>7, <3>1, IndexOrder
    <3> QED BY <1>3, <3>1, <3>2
  <2> HIDE DEF k, b
  <2> QED BY <1>1, <2>1, <2>2 DEF IsLast
<1> QED BY <1>4, <1>5, <1>6, <1>7

LEMMA EmptyIff ==
  ASSUME NEW n \in Nat, NEW a \in Words(n)
  PROVE  IsEmpty(a) <=> Members(a) = {}
<1>1. ASSUME ~ IsEmpty(a) PROVE Members(a) # {}
  <2>1. PICK k \in 0 .. n - 1 : a[k] # {}
    BY <1>1, Shape DEF IsEmpty
  <2>2. PICK b \in a[k] : b \in Bits /\ k \in Nat
    BY <2>1, Shape
  <2>3. IdxOf(k, b) \in Members(a)
    BY <2>1, <2>2, JoinIndex, MemberIff
  <2> QED BY <2>3
<1> QED BY <1>1, EmptyMembers

\* len, is_empty, first and last, each a loop over the words, say of the set
\* what a set is asked, for every word width and length.
THEOREM CountsCorrect == Spec => []CountsAgree
<1>1. TypeOK => CountsAgree
  <2> SUFFICES ASSUME TypeOK, NEW r \in Names
               PROVE  /\ Count(store[r]) = Cardinality(Members(store[r]))
                      /\ IsEmpty(store[r]) <=> Members(store[r]) = {}
                      /\ \A i \in Members(store[r]) :
                           /\ IsFirst(store[r], Seg(i), Mask(i)) <=> \A j \in Members(store[r]) : i <= j
                           /\ IsLast(store[r], Seg(i), Mask(i)) <=> \A j \in Members(store[r]) : j <= i
    BY DEF CountsAgree
  <2>1. PICK n \in 0 .. MaxLen : store[r] \in Words(n)
    BY SetWords
  <2>2. n \in Nat
    BY <2>1
  <2> QED BY <2>1, <2>2, CountMembers, EmptyIff, EndIff
<1> QED BY <1>1, TypeCorrect, PTL

-----------------------------------------------------------------------------
\* Formatting: where the digits of a base divide the word, its padded digits
\* take exactly its bits.
LEMMA PaddedWidth ==
  ASSUME NEW g \in 1 .. BITS_PER, BITS_PER % g = 0
  PROVE  Padding(g) \in Nat /\ Padding(g) * g = BITS_PER
<1> DEFINE q == BITS_PER \div g
<1>1. BITS_PER \in Nat /\ g \in Nat \ {0}
  BY SliceAssumption
<1>2. q \in Nat /\ BITS_PER = q * g
  BY <1>1
<1> HIDE DEF q
<1>3. (q * g + g - 1) \div g = q
  <2>1. q * g + g - 1 = g * q + (g - 1) /\ g - 1 \in 0 .. g - 1
    BY <1>1, <1>2
  <2> QED BY <1>1, <1>2, <2>1
<1>4. Padding(g) = q
  BY <1>2, <1>3 DEF Padding
<1> QED BY <1>2, <1>4

\* An array reads back as its number in every base whose digits divide a word.
THEOREM DigitsFaithful == Spec => []DigitsReadBack
<1>1. ASSUME NEW a, \A k \in DOMAIN a : k \in Nat,
             NEW g \in 1 .. BITS_PER, BITS_PER % g = 0
      PROVE  Written(a, g) = Combined(a)
  <2>1. ASSUME NEW k \in DOMAIN a PROVE k * Padding(g) * g = k * BITS_PER
    <3>1. Padding(g) \in Nat /\ Padding(g) * g = BITS_PER /\ k \in Nat /\ g \in Nat
      BY <1>1, PaddedWidth
    <3>2. \A p \in Nat : k * p * g = k * (p * g)
      BY <3>1
    <3> QED BY <3>1, <3>2
  <2>2. [k \in DOMAIN a |-> Number(a[k]) * 2 ^ (k * Padding(g) * g)]
          = [k \in DOMAIN a |-> Number(a[k]) * 2 ^ (k * BITS_PER)]
    BY <2>1
  <2> QED BY <2>2 DEF Written, Combined
<1>2. TypeOK => DigitsReadBack
  <2> SUFFICES ASSUME TypeOK, NEW r \in Names, NEW g \in 1 .. BITS_PER, BITS_PER % g = 0
               PROVE  Written(store[r], g) = Combined(store[r])
    BY DEF DigitsReadBack
  <2>1. PICK n \in 0 .. MaxLen : store[r] \in Words(n)
    BY SetWords
  <2>2. \A k \in DOMAIN store[r] : k \in Nat
    BY <2>1, Shape
  <2> QED BY <1>1, <2>2
<1> QED BY <1>2, TypeCorrect, PTL

=============================================================================
